---- MODULE Spec2Model ----
(***************************************************************************)
(* A model of vhdllint (src/vhdllint.py): the diagnostic sink, the NOLINT  *)
(* suppression store and the passes of ProcessFileData over one file.      *)
(*                                                                         *)
(* Lines of the linted file are records [body, dir, arg]: `body' is the    *)
(* code text, `dir' the NOLINT-family word of a trailing comment ("" when  *)
(* there is none) and `arg' its parenthesised argument ("" when absent).   *)
(* RawText gives the raw line.  Python list indices are 0-based: At(l, i)  *)
(* reads lines[i].                                                         *)
(***************************************************************************)
EXTENDS Integers, Sequences, FiniteSets, TLC

VARIABLES
    verbose_level,              \* _lint_state.verbose_level
    filters,                    \* _lint_state.filters
    counting,                   \* _lint_state.counting
    error_count,                \* _lint_state.error_count
    errors_by_category,         \* _lint_state.errors_by_category
    stderr,                     \* the diagnostics written, in order
    line_length,                \* _line_length
    valid_extensions,           \* _valid_extensions
    root,                       \* _root
    filters_backup,             \* _lint_state._filters_backup
    files,                      \* the files named on the command line, as main reads them
    fileix,                     \* position of main's loop over the files
    error_suppressions,         \* _error_suppressions, as pairs <<category, line>>
    error_suppressions_region,  \* _error_suppressions_region
    all_identifiers,            \* _all_identifiers, in insertion order
    local_identifiers,          \* _local_identifiers, the stack of local scopes
    signal_identifiers,         \* _signal_identifiers, in insertion order
    constant_identifiers,       \* _constant_identifiers, in insertion order
    other_identifiers,          \* _other_identifiers, in insertion order
    locals,                     \* the local variables of the function in progress
    lines,                      \* the `lines' list of ProcessFileData
    clean_lines,                \* the CleansedLines object of ProcessFileData
    pc,                         \* position in ProcessFileData
    linenum,                    \* loop variable of the two per-line loops
    pending,                    \* error() calls made by the running step, not yet executed
    exception,                  \* the uncaught Python exception that ended the run, "" if none
    hash_seed,                  \* the order the interpreter's salted str hashes give the names
    runs                        \* stderr of the earlier runs of the program on the same input

sinkVars == <<verbose_level, filters, counting, error_count, errors_by_category, stderr>>
globalVars == <<line_length, valid_extensions, root, filters_backup>>
mainVars == <<files, fileix>>
runVars == <<hash_seed, runs>>
tableVars == <<signal_identifiers, constant_identifiers, other_identifiers>>
fileVars == <<error_suppressions, error_suppressions_region, all_identifiers,
              local_identifiers, tableVars, locals, lines,
              clean_lines, pc, linenum, pending, exception>>
vars == <<sinkVars, globalVars, mainVars, runVars, fileVars>>

-----------------------------------------------------------------------------
(* Bounds of the model. *)

MaxLines == 3       \* most elements of file.read().split('\n')

-----------------------------------------------------------------------------
(* Python string helpers. *)

(* The least element of a non-empty set of integers. *)
Least(S) == CHOOSE x \in S : \A y \in S : x <= y

(* s.find(sub, i): the first position from i on where sub occurs, -1      *)
(* without one.                                                            *)
FindFrom(s, sub, i) ==
    LET hits == {k \in i..(Len(s) - Len(sub)) : SubSeq(s, k + 1, k + Len(sub)) = sub}
    IN  IF hits = {} THEN -1 ELSE Least(hits)

Find(s, sub) == FindFrom(s, sub, 0)

(* s.rfind(sub) *)
RFind(s, sub) ==
    LET hits == {k \in 0..(Len(s) - Len(sub)) : SubSeq(s, k + 1, k + Len(sub)) = sub}
    IN  IF hits = {} THEN -1 ELSE CHOOSE x \in hits : \A y \in hits : y <= x

StartsWith(s, p) == Len(p) <= Len(s) /\ SubSeq(s, 1, Len(p)) = p

EndsWith(s, p) == Len(p) <= Len(s) /\ SubSeq(s, Len(s) - Len(p) + 1, Len(s)) = p

IsSpace(c) == c \in {" ", "\t"}

RECURSIVE LStrip(_)
LStrip(s) ==
    IF Len(s) > 0 /\ IsSpace(SubSeq(s, 1, 1)) THEN LStrip(SubSeq(s, 2, Len(s))) ELSE s

RECURSIVE RStrip(_)
RStrip(s) ==
    IF Len(s) > 0 /\ IsSpace(SubSeq(s, Len(s), Len(s)))
    THEN RStrip(SubSeq(s, 1, Len(s) - 1)) ELSE s

Strip(s) == LStrip(RStrip(s))

At(l, i) == l[i + 1]

CharAt(s, i) == SubSeq(s, i + 1, i + 1)

Min(a, b) == IF a < b THEN a ELSE b

Max(a, b) == IF a > b THEN a ELSE b

(* s[a:b] *)
SliceIndex(i, n) == IF i < 0 THEN Max(0, n + i) ELSE Min(i, n)
SliceBetween(s, x, y) == IF x >= y THEN "" ELSE SubSeq(s, x + 1, y)

Slice(s, a, b) == SliceBetween(s, SliceIndex(a, Len(s)), SliceIndex(b, Len(s)))

(* s[a:] *)
SliceFrom(s, a) == Slice(s, a, Len(s))

WordChars == {
    "a", "b", "c", "d", "e", "f", "g", "h", "i", "j", "k", "l", "m", "n", "o", "p", "q",
    "r", "s", "t", "u", "v", "w", "x", "y", "z", "A", "B", "C", "D", "E", "F", "G", "H",
    "I", "J", "K", "L", "M", "N", "O", "P", "Q", "R", "S", "T", "U", "V", "W", "X", "Y",
    "Z", "0", "1", "2", "3", "4", "5", "6", "7", "8", "9", "_" }

IsWordChar(c) == c \in WordChars

(* re.search(r'\b(name)\b', s).start(), -1 without match; name starts and   *)
(* ends with a word character.                                             *)
FindWordFrom(s, name, i) ==
    LET hits == {k \in i..(Len(s) - Len(name)) :
                    /\ SubSeq(s, k + 1, k + Len(name)) = name
                    /\ k = 0 \/ ~IsWordChar(CharAt(s, k - 1))
                    /\ k + Len(name) = Len(s) \/ ~IsWordChar(CharAt(s, k + Len(name)))}
    IN  IF hits = {} THEN -1 ELSE Least(hits)

FindWord(s, name) == FindWordFrom(s, name, 0)

-----------------------------------------------------------------------------
(* Program constants. *)

ERROR_CATEGORIES == {
    "build/arithmetic", "build/deprecated", "build/filename",
    "build/include_alpha", "build/port_modes", "build/port_types",
    "build/shadow", "build/unused", "build/vhdl2008",
    "build/vhdl2008/sensitivity", "build/vhdl2008/outputs", "legal/copyright",
    "readability/booleans", "readability/capitalization",
    "readability/constants", "readability/declarations",
    "readability/components", "readability/fsm", "readability/header",
    "readability/identifiers", "readability/multiline_comment",
    "readability/naming", "readability/nolint", "readability/nul",
    "readability/others", "readability/portmaps", "readability/reserved",
    "readability/todo", "readability/units", "readability/utf8",
    "runtime/combinational_loop", "runtime/integers", "runtime/latches",
    "runtime/loops", "runtime/multiple_drivers", "runtime/rising_edge",
    "runtime/sensitivity", "runtime/variables", "whitespace/blank_line",
    "whitespace/comments", "whitespace/end_of_line",
    "whitespace/ending_newline", "whitespace/indent",
    "whitespace/line_length", "whitespace/newline", "whitespace/tab",
    "whitespace/todo" }

DEFAULT_FILTERS == << "-build/include_alpha" >>

DefaultLineLength == 80

DefaultExtensions == {"vhd", "vhdl"}

None == "<None>"    \* Python's None, as dictionary key and as absent regex group

global_error_suppressions == {}     \* never filled: ProcessGlobalSuppresions does nothing

-----------------------------------------------------------------------------
(* Lines. *)

Line(body, dir, arg) == [body |-> body, dir |-> dir, arg |-> arg]

Plain(body) == Line(body, "", "")

RawText(l) ==
    IF l.dir = "" THEN l.body
    ELSE (IF l.body = "" THEN "" ELSE l.body \o " ") \o "-- " \o l.dir \o l.arg

FirstMarker == Plain("// marker so line numbers and indices both start at 1")
LastMarker == Plain("// marker so line numbers end in a known way")

IsBlankLine(text) == Strip(text) = ""

-----------------------------------------------------------------------------
(* LineRef. *)

LineRef(line, column, end_column) ==
    [line |-> line, column |-> column, end_column |-> end_column]

LineRefLength(line, column, length) == LineRef(line, column, column + length)

FromString(line_num, text, name) ==
    LET pos == FindWord(text, name)
    IN  LineRefLength(line_num, IF pos >= 0 THEN pos ELSE 0, Len(name))

(* FromString(..., use_word_boundary=False) *)
FromStringAnywhere(line_num, text, name) ==
    LET pos == Find(text, name)
    IN  LineRefLength(line_num, IF pos >= 0 THEN pos ELSE 0, Len(name))

OnlyLine(line_num) == LineRef(line_num, 0, 1)

Diag(lineref, category, confidence, message) ==
    [lineref |-> lineref, category |-> category,
     confidence |-> confidence, message |-> message]

-----------------------------------------------------------------------------
(* The diagnostic sink. *)

IsErrorSuppressedByNolint(category, line) ==
    \/ category \in global_error_suppressions
    \/ <<category, line>> \in error_suppressions
    \/ <<None, line>> \in error_suppressions

WellFormed(one_filter) == StartsWith(one_filter, "-") \/ StartsWith(one_filter, "+")

(* IsFiltered where a '+' entry never clears the flag. *)
RECURSIVE IsFilteredSticky(_, _, _)
IsFilteredSticky(fs, category, is_filtered) ==
    IF fs = <<>> THEN is_filtered
    ELSE LET one_filter == Head(fs)
             prefix == SubSeq(one_filter, 2, Len(one_filter))
         IN  IsFilteredSticky(Tail(fs), category,
                 IF StartsWith(one_filter, "-") /\ StartsWith(category, prefix)
                 THEN TRUE ELSE is_filtered)

RECURSIVE IsFiltered(_, _, _)
IsFiltered(fs, category, is_filtered) ==
    IF fs = <<>> THEN is_filtered
    ELSE LET one_filter == Head(fs)
             prefix == SubSeq(one_filter, 2, Len(one_filter))
         IN  IF StartsWith(one_filter, "-")
             THEN IsFiltered(Tail(fs), category,
                             IF StartsWith(category, prefix) THEN TRUE ELSE is_filtered)
             ELSE IsFiltered(Tail(fs), category,
                             IF StartsWith(category, prefix) THEN FALSE ELSE is_filtered)

(* AddFilters on the entries of a comma-separated list, stripped and not   *)
(* empty: they are appended, and then every entry of the list is looked at *)
(* for its sign.                                                           *)
AddFilters(fs, entries) == fs \o entries

FiltersValid(fs) == \A i \in 1..Len(fs) : WellFormed(fs[i])

(* The filter loop of _ShouldPrintError is entered only when the first two *)
(* gates pass; there an entry without sign hits `assert False'.            *)
FilterLoopAsserts(category, confidence, line) ==
    /\ ~IsErrorSuppressedByNolint(category, line)
    /\ ~(confidence < verbose_level)
    /\ \E i \in 1..Len(filters) : ~WellFormed(filters[i])

(* ShouldPrintError with the verbosity comparison off by one. *)
ShouldPrintErrorStrict(category, confidence, line) ==
    IF IsErrorSuppressedByNolint(category, line) THEN FALSE
    ELSE IF confidence <= verbose_level THEN FALSE
    ELSE ~IsFiltered(filters, category, FALSE)

ShouldPrintError(category, confidence, line) ==
    IF IsErrorSuppressedByNolint(category, line) THEN FALSE
    ELSE IF confidence < verbose_level THEN FALSE
    ELSE ~IsFiltered(filters, category, FALSE)

TopLevel(category) ==
    LET slash == Find(category, "/")
    IN  IF slash < 0 THEN category ELSE SubSeq(category, 1, slash)

IncrementErrorCount(category) ==
    /\ error_count' = error_count + 1
    /\ IF counting \in {"toplevel", "detailed"}
       THEN LET key == IF counting # "detailed" THEN TopLevel(category) ELSE category
            IN  errors_by_category' =
                    IF key \in DOMAIN errors_by_category
                    THEN [errors_by_category EXCEPT ![key] = @ + 1]
                    ELSE errors_by_category @@ (key :> 1)
       ELSE UNCHANGED errors_by_category

(* Error(filename, lineref, category, confidence, message): the oldest call *)
(* of the running step is executed.                                         *)
Error ==
    /\ exception = ""
    /\ pending # <<>>
    /\ LET d == Head(pending)
       IN  IF FilterLoopAsserts(d.category, d.confidence, d.lineref.line)
           THEN /\ exception' = "AssertionError"
                /\ UNCHANGED <<error_count, errors_by_category, stderr>>
           ELSE /\ UNCHANGED exception
                /\ IF ShouldPrintError(d.category, d.confidence, d.lineref.line)
                   THEN /\ IncrementErrorCount(d.category)
                        /\ stderr' = Append(stderr, d)
                   ELSE UNCHANGED <<error_count, errors_by_category, stderr>>
    /\ pending' = Tail(pending)
    /\ UNCHANGED <<verbose_level, filters, counting, globalVars, tableVars, locals, mainVars, runVars,
                   error_suppressions, error_suppressions_region,
                   all_identifiers, local_identifiers,
                   lines, clean_lines, pc, linenum>>

-----------------------------------------------------------------------------
(* Suppression store. *)

(* ResetNolintSuppressions *)
ResetNolintSuppressions ==
    /\ error_suppressions' = {}
    /\ error_suppressions_region' = {}

(* The match of \bNOLINT(NEXTLINE|BEGIN|END)?\b(\([^)]+\))? in the raw line. *)
Matched(l) == l.dir # ""
Group1(l) == IF l.dir = "NOLINT" THEN None ELSE SubSeq(l.dir, 7, Len(l.dir))
Group2(l) == IF l.arg = "" THEN None ELSE l.arg

NolintError(l, n) ==
    LET category == SubSeq(Group2(l), 2, Len(Group2(l)) - 1)
    IN  Diag(FromString(n, RawText(l), category), "readability/nolint", 5,
             "Unknown NOLINT error category: " \o category)

(* ParseNolintDirective where an unknown category is recorded all the same. *)
ParseNolintDirectiveLax(l, n) ==
    LET suppressed_line == IF Group1(l) = "NEXTLINE" THEN n + 1 ELSE n
        category == SubSeq(Group2(l), 2, Len(Group2(l)) - 1)
    IN  IF ~Matched(l)
        THEN [supp |-> error_suppressions, region |-> error_suppressions_region,
              errs |-> <<>>]
        ELSE IF Group2(l) \in {None, "(*)"}
        THEN [supp |-> error_suppressions \cup {<<None, suppressed_line>>},
              region |-> error_suppressions_region, errs |-> <<>>]
        ELSE [supp |-> error_suppressions \cup {<<category, suppressed_line>>},
              region |-> IF Group1(l) = "BEGIN"
                         THEN error_suppressions_region \cup {category}
                         ELSE IF Group1(l) = "END"
                         THEN error_suppressions_region \ {category}
                         ELSE error_suppressions_region,
              errs |-> IF category \in ERROR_CATEGORIES THEN <<>>
                       ELSE <<NolintError(l, n)>>]

(* ParseNolintDirective where NOLINTEND leaves the region open. *)
ParseNolintDirectiveUnclosed(l, n) ==
    LET suppressed_line == IF Group1(l) = "NEXTLINE" THEN n + 1 ELSE n
        category == SubSeq(Group2(l), 2, Len(Group2(l)) - 1)
    IN  IF ~Matched(l)
        THEN [supp |-> error_suppressions, region |-> error_suppressions_region,
              errs |-> <<>>]
        ELSE IF Group2(l) \in {None, "(*)"}
        THEN [supp |-> error_suppressions \cup {<<None, suppressed_line>>},
              region |-> error_suppressions_region, errs |-> <<>>]
        ELSE IF category \in ERROR_CATEGORIES
        THEN [supp |-> error_suppressions \cup {<<category, suppressed_line>>},
              region |-> IF Group1(l) = "BEGIN"
                         THEN error_suppressions_region \cup {category}
                         ELSE error_suppressions_region,
              errs |-> <<>>]
        ELSE [supp |-> error_suppressions, region |-> error_suppressions_region,
              errs |-> <<NolintError(l, n)>>]

(* ParseNolintSuppressions up to the region loop: the suppressions of the  *)
(* directive, the open regions, and the error() call, if any.              *)
ParseNolintDirective(l, n) ==
    LET suppressed_line == IF Group1(l) = "NEXTLINE" THEN n + 1 ELSE n
        begin_region == Group1(l) = "BEGIN"
        end_region == Group1(l) = "END"
        category == SubSeq(Group2(l), 2, Len(Group2(l)) - 1)
    IN  IF ~Matched(l)
        THEN [supp |-> error_suppressions, region |-> error_suppressions_region,
              errs |-> <<>>]
        ELSE IF Group2(l) \in {None, "(*)"}
        THEN [supp |-> error_suppressions \cup {<<None, suppressed_line>>},
              region |-> error_suppressions_region, errs |-> <<>>]
        ELSE IF category \in ERROR_CATEGORIES
        THEN [supp |-> error_suppressions \cup {<<category, suppressed_line>>},
              region |-> IF begin_region THEN error_suppressions_region \cup {category}
                         ELSE IF end_region THEN error_suppressions_region \ {category}
                         ELSE error_suppressions_region,
              errs |-> <<>>]
        ELSE [supp |-> error_suppressions, region |-> error_suppressions_region,
              errs |-> <<NolintError(l, n)>>]

(* The region loop that ends ParseNolintSuppressions. *)
ParseNolintRegion(n) ==
    error_suppressions \cup {<<category, n>> : category \in error_suppressions_region}

-----------------------------------------------------------------------------
(* Checks of ProcessFileData. *)

CopyrightWindow == 31
blank_thresh == 3

NumLines(ls) == Len(ls)

CheckForHeader(ls) ==
    IF ~StartsWith(RawText(At(ls, 1)), "--")
    THEN <<Diag(OnlyLine(0), "readability/header", 5, "No file header found.")>>
    ELSE <<>>

CheckForCopyright(ls) ==
    IF \E line \in 1..(Min(Len(ls), CopyrightWindow) - 1) :
           Find(RawText(At(ls, line)), "Copyright") >= 0
    THEN <<>>
    ELSE <<Diag(OnlyLine(0), "legal/copyright", 5, "No copyright message found.")>>

IsCommentStart(l) ==
    LET t == Strip(RawText(l)) IN StartsWith(t, "/*") /\ FindFrom(t, "*/", 2) < 0

RECURSIVE FindNextMultiLineCommentStart(_, _)
FindNextMultiLineCommentStart(ls, lineix) ==
    IF lineix >= Len(ls) THEN Len(ls)
    ELSE IF IsCommentStart(At(ls, lineix)) THEN lineix
    ELSE FindNextMultiLineCommentStart(ls, lineix + 1)

RECURSIVE FindNextMultiLineCommentEnd(_, _)
FindNextMultiLineCommentEnd(ls, lineix) ==
    IF lineix >= Len(ls) THEN Len(ls)
    ELSE IF EndsWith(Strip(RawText(At(ls, lineix))), "*/") THEN lineix
    ELSE FindNextMultiLineCommentEnd(ls, lineix + 1)

RemoveMultiLineCommentsFromRange(ls, begin, end) ==
    [i \in 1..Len(ls) |-> IF begin <= i - 1 /\ i - 1 < end THEN Plain("/**/") ELSE ls[i]]

RECURSIVE RemoveMultiLineComments(_, _)
RemoveMultiLineComments(ls, lineix) ==
    IF lineix >= Len(ls) THEN [lines |-> ls, errs |-> <<>>]
    ELSE LET lineix_begin == FindNextMultiLineCommentStart(ls, lineix)
             lineix_end == FindNextMultiLineCommentEnd(ls, lineix_begin)
         IN  IF lineix_begin >= Len(ls) THEN [lines |-> ls, errs |-> <<>>]
             ELSE IF lineix_end >= Len(ls)
             THEN [lines |-> ls,
                   errs |-> <<Diag(OnlyLine(lineix_begin + 1),
                                   "readability/multiline_comment", 5,
                                   "Could not find end of multi-line comment")>>]
             ELSE RemoveMultiLineComments(
                      RemoveMultiLineCommentsFromRange(ls, lineix_begin, lineix_end + 1),
                      lineix_end + 1)

(* CheckStyle: the tab rule and the blank-line window.  No line of the     *)
(* model starts with a space or ends in white space.                       *)
CheckStyle(ls, n) ==
    LET line == RawText(At(ls, n))
        window == n..(Min(NumLines(ls), n + blank_thresh) - 1)
        blank_cnt == Cardinality({l \in window : IsBlankLine(RawText(At(ls, l)))})
    IN  (IF Find(line, "\t") # -1
         THEN <<Diag(FromStringAnywhere(n, line, "\t"), "whitespace/tab", 1,
                     "Tab found; better to use spaces")>>
         ELSE <<>>)
        \o
        (IF blank_cnt >= blank_thresh
         THEN <<Diag(OnlyLine(n), "whitespace/blank_line", 4,
                     "Redundant blank lines.")>>
         ELSE <<>>)

(* s.count(sub): the occurrences of sub, counted without overlap. *)
RECURSIVE CountFrom(_, _, _)
CountAt(s, sub, p) == IF p < 0 THEN 0 ELSE 1 + CountFrom(s, sub, p + Len(sub))

CountFrom(s, sub, i) == CountAt(s, sub, FindFrom(s, sub, i))

Count(s, sub) == CountFrom(s, sub, 0)

(* IsCppString: the replacement of `--' by `XX' changes none of the counts. *)
IsCppString(line) == (Count(line, "\"") - Count(line, "\\\"") - Count(line, "'\"'")) % 2 = 1

(* The `\s*' in front of and behind a C comment that starts at c and ends  *)
(* before a: where the run of white space begins and where it ends.        *)
WsBefore(s, c) == Least({w \in 0..c : \A k \in w..(c - 1) : IsSpace(CharAt(s, k))})

WsAfter(s, a) ==
    Least({t \in a..Len(s) : t = Len(s) \/ ~IsSpace(CharAt(s, t))})

(* The leftmost match of _RE_PATTERN_CLEANSE_LINE_C_COMMENTS around the    *)
(* first comment [c, a), with white space from w in front and up to t      *)
(* behind; its alternatives in order:  \s*C\s*$,  C\s+,  \s+C(?=\W),  C.   *)
CCommentMatch(s, c, a, w, t) ==
    IF t = Len(s) THEN [start |-> w, stop |-> Len(s)]
    ELSE IF w < c /\ ~IsWordChar(CharAt(s, a)) THEN [start |-> w, stop |-> a]
    ELSE IF t > a THEN [start |-> c, stop |-> t]
    ELSE [start |-> c, stop |-> a]

(* _RE_PATTERN_CLEANSE_LINE_C_COMMENTS.sub('', s): a comment runs from the *)
(* first slash-star to the first star-slash behind it; the search goes on  *)
(* behind every match, the result is not searched again.                   *)
RECURSIVE RemoveCComments(_)
RemoveCCommentCut(s, m) ==
    SliceBetween(s, 0, m.start) \o RemoveCComments(SliceBetween(s, m.stop, Len(s)))

RemoveCCommentAt(s, c, e) ==
    IF c < 0 \/ e < 0 THEN s
    ELSE RemoveCCommentCut(s, CCommentMatch(s, c, e + 2, WsBefore(s, c), WsAfter(s, e + 2)))

RemoveCCommentFrom(s, c) ==
    RemoveCCommentAt(s, c, IF c < 0 THEN -1 ELSE FindFrom(s, "*/", c + 2))

RemoveCComments(s) == RemoveCCommentFrom(s, Find(s, "/*"))

(* CleanseComments: the text from `--' on is cut unless the `--' is inside *)
(* a string, then the C comments are removed.                              *)
CutComment(line, commentpos) ==
    IF commentpos # -1 /\ ~IsCppString(Slice(line, 0, commentpos))
    THEN RStrip(Slice(line, 0, commentpos))
    ELSE line

CleanseComments(line) == RemoveCComments(CutComment(line, Find(line, "--")))

(* _RE_PATTERN_CLEANSE_LINE_ESCAPES: the length of the escape sequence at  *)
(* the backslash p, 0 when there is none.                                  *)
EscapeChars == {"a", "b", "f", "n", "r", "t", "v", "?", "\"", "\\", "'"}
Digits == {"0", "1", "2", "3", "4", "5", "6", "7", "8", "9"}
HexDigits == Digits \cup {"a", "b", "c", "d", "e", "f", "A", "B", "C", "D", "E", "F"}

RunEnd(s, i, chars) == Least({t \in i..Len(s) : t = Len(s) \/ CharAt(s, t) \notin chars})

EscapeLen(s, p) ==
    IF p + 1 >= Len(s) THEN 0
    ELSE IF CharAt(s, p + 1) \in EscapeChars THEN 2
    ELSE IF CharAt(s, p + 1) \in Digits THEN RunEnd(s, p + 1, Digits) - p
    ELSE IF CharAt(s, p + 1) = "x" /\ RunEnd(s, p + 2, HexDigits) > p + 2
         THEN RunEnd(s, p + 2, HexDigits) - p
    ELSE 0

RECURSIVE RemoveEscapes(_)
RemoveEscapeOf(s, p, n) ==
    IF n = 0 THEN SliceBetween(s, 0, p + 1) \o RemoveEscapes(SliceBetween(s, p + 1, Len(s)))
    ELSE SliceBetween(s, 0, p) \o RemoveEscapes(SliceBetween(s, p + n, Len(s)))

RemoveEscapes(s) == IF Find(s, "\\") < 0 THEN s ELSE RemoveEscapeOf(s, Find(s, "\\"), EscapeLen(s, Find(s, "\\")))

(* The loop of _CollapseStrings: a double-quoted string becomes "", the    *)
(* loop ends at a single quote or at a double quote without partner.       *)
FirstQuote(s) ==
    LET hits == {k \in 0..(Len(s) - 1) : CharAt(s, k) \in {"'", "\""}}
    IN  IF hits = {} THEN -1 ELSE Least(hits)

RECURSIVE CollapseQuotes(_)
CollapseQuoteTo(elided, q, second_quote) ==
    IF second_quote < 0 THEN elided
    ELSE SliceBetween(elided, 0, q) \o "\"\""
             \o CollapseQuotes(SliceBetween(elided, second_quote + 1, Len(elided)))

CollapseQuoteAt(elided, q) ==
    IF q < 0 \/ CharAt(elided, q) = "'" THEN elided
    ELSE CollapseQuoteTo(elided, q, FindFrom(elided, "\"", q + 1))

CollapseQuotes(elided) == CollapseQuoteAt(elided, FirstQuote(elided))

(* _CollapseStrings; no line of the model is an #include line. *)
CollapseStrings(elided) == CollapseQuotes(RemoveEscapes(elided))

(* clean_lines.lines[n] and clean_lines.elided[n] *)
CleansedLine(ls, n) == CleanseComments(RawText(At(ls, n)))
Elided(ls, n) == CleanseComments(CollapseStrings(CleansedLine(ls, n)))

(* CleansedLines.__init__ *)
CleansedLines(ls) ==
    [lines |-> [k \in 1..Len(ls) |-> CleansedLine(ls, k - 1)],
     elided |-> [k \in 1..Len(ls) |-> Elided(ls, k - 1)]]

(* No CleansedLines object has been built. *)
NoCleansedLines == [lines |-> <<>>, elided |-> <<>>]

IsCommentLine(text) == StartsWith(LStrip(text), "--")

IsBlankOrCommentLine(text) == IsBlankLine(text) \/ IsCommentLine(text)

IsPrevLineBlankOrComment(ls, n) ==
    IsBlankOrCommentLine(IF n > 0 THEN RawText(At(ls, n - 1)) ELSE "")

(* raw_lines[linenum + 1] is read for every linenum < NumLines; the model  *)
(* calls it for lines in front of the last marker only.                    *)
IsNextLineBlankOrComment(ls, n) ==
    IsBlankOrCommentLine(IF n < NumLines(ls) THEN RawText(At(ls, n + 1)) ELSE "")

-----------------------------------------------------------------------------
(* Bracket matching. *)

Top(stack) == stack[Len(stack)]
Pop(stack) == SubSeq(stack, 1, Len(stack) - 1)

(* The stack as it is, the pending `<' entries kept. *)
PopAnglesKept(stack) == stack

RECURSIVE PopAngles(_)
PopAngles(stack) ==
    IF stack # <<>> /\ Top(stack) = "<" THEN PopAngles(Pop(stack)) ELSE stack

Closes(open, char) ==
    \/ open = "(" /\ char = ")"
    \/ open = "[" /\ char = "]"
    \/ open = "{" /\ char = "}"

(* The characters FindEndOfExpressionInLine branches on, and the first of  *)
(* them from startpos on (len(line) without one): its loop passes over     *)
(* every other character.                                                  *)
BracketChars == {"(", "[", "{", "<", ")", "]", "}", ">", ";"}

NextBracketChar(line, startpos) ==
    LET hits == {k \in startpos..(Len(line) - 1) : CharAt(line, k) \in BracketChars}
    IN  IF hits = {} THEN Len(line) ELSE Least(hits)

(* FindEndOfExpressionInLine without the `operator<' cases.  The stack     *)
(* None of the code is returned as the empty stack: the caller tests only  *)
(* its truth.                                                              *)
RECURSIVE FindEndOfExpressionInLine(_, _, _)
RECURSIVE FindEndAtChar(_, _, _, _)
FindEndAtChar(line, i, char, stack) ==
    LET found == [end_pos |-> i + 1, stack |-> <<>>]
        unclosed == [end_pos |-> -1, stack |-> <<>>]
    IN  IF char \in {"(", "[", "{"}
        THEN FindEndOfExpressionInLine(line, i + 1, Append(stack, char))
        ELSE IF char = "<"
        THEN IF i > 0 /\ CharAt(line, i - 1) = "<"
             THEN IF stack # <<>> /\ Top(stack) = "<"
                  THEN IF Len(stack) = 1 THEN unclosed
                       ELSE FindEndOfExpressionInLine(line, i + 1, Pop(stack))
                  ELSE FindEndOfExpressionInLine(line, i + 1, stack)
             ELSE FindEndOfExpressionInLine(line, i + 1, Append(stack, "<"))
        ELSE IF char \in {")", "]", "}"}
        THEN IF PopAngles(stack) = <<>> THEN unclosed
             ELSE IF Closes(Top(PopAngles(stack)), char)
             THEN IF Len(PopAngles(stack)) = 1 THEN found
                  ELSE FindEndOfExpressionInLine(line, i + 1, Pop(PopAngles(stack)))
             ELSE unclosed
        ELSE IF char = ">"
        THEN IF i > 0 /\ CharAt(line, i - 1) = "-"
             THEN FindEndOfExpressionInLine(line, i + 1, stack)
             ELSE IF stack # <<>> /\ Top(stack) = "<"
             THEN IF Len(stack) = 1 THEN found
                  ELSE FindEndOfExpressionInLine(line, i + 1, Pop(stack))
             ELSE FindEndOfExpressionInLine(line, i + 1, stack)
        ELSE IF PopAngles(stack) = <<>> THEN unclosed
             ELSE FindEndOfExpressionInLine(line, i + 1, PopAngles(stack))

FindEndFrom(line, i, stack) ==
    IF i >= Len(line) THEN [end_pos |-> -1, stack |-> stack]
    ELSE FindEndAtChar(line, i, CharAt(line, i), stack)

FindEndOfExpressionInLine(line, startpos, stack) ==
    FindEndFrom(line, NextBracketChar(line, startpos), stack)

(* The `while stack and linenum < NumLines - 1' loop of CloseExpression. *)
RECURSIVE CloseExpressionScan(_, _, _)
(* The result r of FindEndOfExpressionInLine on `line': return where the  *)
(* expression ends, or go on with the next line.                           *)
CloseExpressionFound(ls, lineno, line, r) ==
    IF r.end_pos > -1 THEN [line |-> line, linenum |-> lineno, pos |-> r.end_pos]
    ELSE CloseExpressionScan(ls, lineno, r.stack)

CloseExpressionLine(ls, lineno, line, stack) ==
    CloseExpressionFound(ls, lineno, line, FindEndOfExpressionInLine(line, 0, stack))

CloseExpressionScan(ls, lineno, stack) ==
    IF stack # <<>> /\ lineno < NumLines(ls) - 1
    THEN CloseExpressionLine(ls, lineno + 1, Elided(ls, lineno + 1), stack)
    ELSE [line |-> Elided(ls, lineno), linenum |-> NumLines(ls), pos |-> -1]

CloseExpressionFirst(ls, lineno, pos, line) ==
    IF \/ CharAt(line, pos) \notin {"(", "{", "[", "<"}
       \/ Slice(line, pos, pos + 2) \in {"<<", "<="}
    THEN [line |-> line, linenum |-> NumLines(ls), pos |-> -1]
    ELSE CloseExpressionFound(ls, lineno, line, FindEndOfExpressionInLine(line, pos, <<>>))

CloseExpression(ls, lineno, pos) == CloseExpressionFirst(ls, lineno, pos, Elided(ls, lineno))

RECURSIVE JoinLines(_, _, _)
JoinLines(ls, from, to) ==
    IF from >= to THEN "" ELSE CleansedLine(ls, from) \o JoinLines(ls, from + 1, to)

ExtractedExpression(ls, line_num, pos, c, first) ==
    [string |-> IF line_num = c.linenum
                THEN Slice(first, pos + 1, c.pos - 1)
                ELSE SliceFrom(first, pos + 1)
                     \o JoinLines(ls, line_num + 1, c.linenum)
                     \o Slice(c.line, 0, c.pos - 1),
     endlinenum |-> c.linenum,
     endpos |-> c.pos]

ExtractExpression(ls, line_num, pos) ==
    ExtractedExpression(ls, line_num, pos, CloseExpression(ls, line_num, pos),
                        CleansedLine(ls, line_num))

UpperCase == "ABCDEFGHIJKLMNOPQRSTUVWXYZ"
LowerCase == "abcdefghijklmnopqrstuvwxyz"

LowerChar(c) == IF Find(UpperCase, c) >= 0 THEN CharAt(LowerCase, Find(UpperCase, c)) ELSE c

(* s.lower() *)
RECURSIVE Lower(_)
Lower(s) == IF s = "" THEN "" ELSE LowerChar(SubSeq(s, 1, 1)) \o Lower(SubSeq(s, 2, Len(s)))

-----------------------------------------------------------------------------
(* The symbol table. *)

(* An identifier as its class (`kind'), with the key it has in the         *)
(* dictionaries, name.lower().                                             *)
Identifier(name, kind, lineref) ==
    [key |-> Lower(name), name |-> name, kind |-> kind, lineref |-> lineref,
     referenced |-> FALSE, drivers |-> <<>>]

(* The entry of the key is taken out and the identifier put at the end. *)
AddIdentifierLast(ids, i) == Append(SelectSeq(ids, LAMBDA x : x.key # i.key), i)

(* _all_identifiers[name.lower()] = i: a known key keeps its place. *)
AddIdentifier(ids, i) ==
    IF \E k \in 1..Len(ids) : ids[k].key = i.key
    THEN [k \in 1..Len(ids) |-> IF ids[k].key = i.key THEN i ELSE ids[k]]
    ELSE Append(ids, i)

WithType == {"Port", "Signal", "Constant", "Variable", "LocalConstant"}

(* The dictionaries by class.  A file of design units declares no name     *)
(* with two classes, so that after ProcessLine each of them holds the      *)
(* entries of _all_identifiers that are of its classes, the same objects.  *)
SignalIdentifiers(ids) == SelectSeq(ids, LAMBDA i : i.kind \in {"Signal", "Port"})

ConstantIdentifiers(ids) == SelectSeq(ids, LAMBDA i : i.kind = "Constant")

OtherIdentifiers(ids) ==
    SelectSeq(ids, LAMBDA i : i.kind \in {"Identifier", "ReferencedIdentifier"})

TypedIdentifiers(ids) ==
    /\ signal_identifiers' = SignalIdentifiers(ids)
    /\ constant_identifiers' = ConstantIdentifiers(ids)
    /\ other_identifiers' = OtherIdentifiers(ids)

InitTyped(ids) ==
    /\ signal_identifiers = SignalIdentifiers(ids)
    /\ constant_identifiers = ConstantIdentifiers(ids)
    /\ other_identifiers = OtherIdentifiers(ids)

(* No function of the model is in progress. *)
NoLocals == [fn |-> ""]

(* The drivers by class.  The scope of a Driver and of a PossibleDriver is *)
(* the empty string at every place that makes one, the scope of a          *)
(* ProcessDriver the line of its process; NoScope stands for the empty     *)
(* string, which equals no line number.                                    *)
NoScope == 0

Driver(scope, line) == [class |-> "Driver", scope |-> scope, line |-> line]

PossibleDriver(scope, line) == [class |-> "PossibleDriver", scope |-> scope, line |-> line]

ProcessDriver(scope, line) == [class |-> "ProcessDriver", scope |-> scope, line |-> line]

(* __hash__: hash(self.scope) of a ProcessDriver, hash(self.line) of the   *)
(* others; the hash of a small integer is the integer.                     *)
DriverHash(d) == IF d.class = "ProcessDriver" THEN d.scope ELSE d.line

(* self.__eq__(other): a ProcessDriver compares the scopes, and its scope, *)
(* a line number, differs from the empty string; the others compare the    *)
(* lines.                                                                  *)
DriverEq(self, other) ==
    IF self.class = "ProcessDriver"
    THEN other.class = "ProcessDriver" /\ self.scope = other.scope
    ELSE self.line = other.line

(* stored == new as the set evaluates it for entries of the same hash: the *)
(* method of `new' goes first when its class is derived from the class of  *)
(* `stored'.                                                               *)
SameKey(stored, new) ==
    /\ DriverHash(stored) = DriverHash(new)
    /\ IF stored.class = "Driver" /\ new.class # "Driver"
       THEN DriverEq(new, stored)
       ELSE DriverEq(stored, new)

(* GetUniqueDrivers: set(self.drivers) keeps the first of the entries it   *)
(* finds equal.                                                            *)
RECURSIVE UniqueDrivers(_, _)
UniqueDrivers(drivers, unique) ==
    IF drivers = <<>> THEN unique
    ELSE UniqueDrivers(Tail(drivers),
             IF \E u \in unique : SameKey(u, Head(drivers)) THEN unique
             ELSE unique \cup {Head(drivers)})

GetUniqueDrivers(drivers) == UniqueDrivers(drivers, {})

RECURSIVE CheckUnusedIdentifiers(_)
CheckUnusedIdentifiers(ids) ==
    IF ids = <<>> THEN <<>>
    ELSE (IF Head(ids).kind \in WithType \cup {"ReferencedIdentifier"}
             /\ ~Head(ids).referenced
          THEN <<Diag(Head(ids).lineref, "build/unused", 2,
                      "Unused identifier '" \o Head(ids).name \o "'.")>>
          ELSE <<>>)
         \o CheckUnusedIdentifiers(Tail(ids))

-----------------------------------------------------------------------------
(* Entities and ports. *)

(* Match of  \s*\bentity\s+(.+?)\s+is : the entities of the model are     *)
(* named t.                                                                *)
EntityName(text) ==
    IF StartsWith(LStrip(text), "entity t is") THEN "t"
    ELSE IF StartsWith(LStrip(text), "entity T is") THEN "T"
    ELSE None

(* Match of  .*\bend\s+(entity|t|entity\s+t)\b , letter case ignored. *)
IsEntityEnd(text) ==
    \/ FindWord(text, "end entity") >= 0
    \/ FindWord(text, "end t") >= 0
    \/ FindWord(text, "end T") >= 0

(* str.islower() and str.isupper() on names that hold a letter. *)
islower(name) == name = Lower(name)

(* The diagnostic of AddOtherIdentifier, AddSignalIdentifier and           *)
(* AddReferencedIdentifier.                                                *)
CheckCapitalization(name, lineref) ==
    IF ~islower(name)
    THEN <<Diag(lineref, "readability/identifiers", 1,
                "Invalid capitalization on '" \o name
                    \o "'. Non-constant identifiers should use all lower case.")>>
    ELSE <<>>

(* Search of  \bport\s*\( : the position of the bracket, -1 without match. *)
PortOpenAt(text, port) ==
    IF port >= 0 /\ StartsWith(LStrip(SliceFrom(text, port + 4)), "(")
    THEN FindFrom(text, "(", port + 4)
    ELSE -1

PortOpen(text) == PortOpenAt(text, FindWord(text, "port"))

(* MatchDeclaration on the text of a port list: the ports of the model are *)
(* declared as  a : in std_logic  or as  a : inout std_logic .             *)
PortMode(text) ==
    IF StartsWith(LStrip(text), "a : in std_logic") THEN "in"
    ELSE IF StartsWith(LStrip(text), "a : inout std_logic") THEN "inout"
    ELSE None

PortNames(text) == IF PortMode(text) # None THEN <<"a">> ELSE <<>>

(* AddPortIdentifier and the driver of an input: the port is the record    *)
(* that GetIdentifierWithType finds, no local scope being open.            *)
AddPortIdentifier(ids, name, mode, l, lineref) ==
    AddIdentifier(ids,
        [Identifier(name, "Port", lineref) EXCEPT
            !.drivers = IF Lower(mode) = "in" \/ Lower(mode) = "inout"
                        THEN <<Driver(NoScope, l)>> ELSE <<>>])

(* The declaration loop of CheckPorts over the lines l..endline. *)
DeclarePort(l, pline, names, mode, ids) ==
    IF names = <<>> THEN ids
    ELSE AddPortIdentifier(ids, names[1], mode, l, FromString(l, pline, names[1]))

DeclarePortsOfLine(l, pline, oline, pos, ids) ==
    DeclarePort(l, pline, PortNames(SliceFrom(oline, pos)),
                PortMode(SliceFrom(oline, pos)), ids)

RECURSIVE DeclarePorts(_, _, _, _, _, _)
DeclarePorts(ls, l, endline, pos, endpos, ids) ==
    IF l > endline THEN ids
    ELSE DeclarePorts(ls, l + 1, endline, 0, endpos,
             DeclarePortsOfLine(l, CleansedLine(ls, l),
                 IF l = endline THEN Slice(CleansedLine(ls, l), 0, endpos)
                 ELSE CleansedLine(ls, l),
                 pos, ids))

(* CheckPorts.  CheckIdentifiers reads clean_lines.lines[l] for every l of *)
(* line_num..endline, and endline is NumLines when the bracket is not      *)
(* closed.                                                                 *)
CheckPortsIn(ls, line_num, ids, pos, x) ==
    IF x.endlinenum >= NumLines(ls)
    THEN [errs |-> <<>>, ids |-> ids, exc |-> "IndexError"]
    ELSE [errs |-> <<>>,
          ids |-> DeclarePorts(ls, line_num, x.endlinenum, pos + 1, x.endpos - 1, ids),
          exc |-> ""]

CheckPortsAt(ls, line_num, ids, pos) ==
    IF pos < 0 THEN [errs |-> <<>>, ids |-> ids, exc |-> ""]
    ELSE CheckPortsIn(ls, line_num, ids, pos, ExtractExpression(ls, line_num, pos))

CheckPorts(ls, line_num, ids) ==
    CheckPortsAt(ls, line_num, ids, PortOpen(CleansedLine(ls, line_num)))

(* The loop of CheckEntity over start_line..end_line-1. *)
RECURSIVE CheckEntityLines(_, _, _, _, _)
CheckEntityLine(ls, l, end_line, errs, p) ==
    IF p.exc # "" THEN [errs |-> errs \o p.errs, ids |-> p.ids, exc |-> p.exc]
    ELSE CheckEntityLines(ls, l + 1, end_line, p.ids, errs \o p.errs)

CheckEntityLines(ls, l, end_line, ids, errs) ==
    IF l >= end_line THEN [errs |-> errs, ids |-> ids, exc |-> ""]
    ELSE CheckEntityLine(ls, l, end_line, errs, CheckPorts(ls, l, ids))

(* name.lower() in filename: the file name is taken as it was given. *)
FilenameContains(filename, name) == Find(filename, Lower(name)) >= 0

CheckEntityStart(ls, filename, start_line, name) ==
    CheckCapitalization(name, FromString(start_line, CleansedLine(ls, start_line), name))
    \o
    (IF ~IsPrevLineBlankOrComment(ls, start_line)
     THEN <<Diag(OnlyLine(start_line), "whitespace/blank_line", 4,
                 "Blank line should come before entity declaration.")>>
     ELSE <<>>)
    \o
    (IF ~FilenameContains(filename, name)
     THEN <<Diag(OnlyLine(start_line), "build/filename", 1,
                 "Filename should contain entity name '" \o Lower(name) \o "'")>>
     ELSE <<>>)

CheckEntityEnd(ls, end_line, r) ==
    IF r.exc # "" THEN r
    ELSE [r EXCEPT !.errs =
             @ \o IF ~IsNextLineBlankOrComment(ls, end_line)
                  THEN <<Diag(OnlyLine(end_line), "whitespace/blank_line", 4,
                              "Blank line should come after entity end.")>>
                  ELSE <<>>]

CheckEntity(ls, filename, start_line, end_line, name, ids) ==
    CheckEntityEnd(ls, end_line,
        CheckEntityLines(ls, start_line, end_line,
            AddIdentifier(ids, Identifier(name, "Identifier",
                FromString(start_line, CleansedLine(ls, start_line), name))),
            CheckEntityStart(ls, filename, start_line, name)))

CheckEntitiesNamed(ls, filename, line_num, ids, name, ends) ==
    IF name = None \/ ends = {} THEN [errs |-> <<>>, ids |-> ids, exc |-> ""]
    ELSE CheckEntity(ls, filename, line_num, Least(ends), name, ids)

CheckEntities(ls, filename, line_num, ids) ==
    CheckEntitiesNamed(ls, filename, line_num, ids, EntityName(CleansedLine(ls, line_num)),
        {l \in line_num..(NumLines(ls) - 1) : IsEntityEnd(CleansedLine(ls, l))})

-----------------------------------------------------------------------------
(* The rules of ProcessLine. *)

CheckLineLength(ls, n) ==
    LET line == RawText(At(ls, n))
    IN  IF line_length > 0 /\ Len(line) > line_length
        THEN <<Diag(OnlyLine(n), "whitespace/line_length", 2, "Line is too long.")>>
        ELSE <<>>

(* Match of  .*?\b\w+\b\s*<=\s*.*?\bwhen\b((?!\belse\b).)*;  on the        *)
(* assignments of the model.                                               *)
IsLatch(text) ==
    /\ Find(text, "<=") > 0
    /\ FindWord(Slice(text, Find(text, "<=") + 2, Len(text)), "when") >= 0
    /\ FindWord(text, "else") < 0
    /\ Find(text, ";") > Find(text, "<=")

CheckLatchesAtTop(ls, n) ==
    IF IsLatch(CleansedLine(ls, n))
    THEN <<Diag(OnlyLine(0), "runtime/latches", 5, "Inferred latch detected.")>>
    ELSE <<>>

CheckLatches(ls, n) ==
    IF IsLatch(CleansedLine(ls, n))
    THEN <<Diag(OnlyLine(n), "runtime/latches", 5, "Inferred latch detected.")>>
    ELSE <<>>

CheckForNewlineAtEOF(ls) ==
    LET last == RawText(At(ls, Len(ls) - 2))
    IN  IF Len(ls) < 3 \/ last # ""
        THEN <<Diag(LineRefLength(Len(ls) - 2, Len(last) - 1, 1),
                    "whitespace/ending_newline", 5,
                    "Could not find a newline character at the end of the file.")>>
        ELSE <<>>

-----------------------------------------------------------------------------
(* Processes. *)

(* re.findall(r"\b[\w']+\b", s): the maximal runs of word characters; no   *)
(* text of the model holds an apostrophe.                                  *)
WordStart(s, i) ==
    LET hits == {k \in i..(Len(s) - 1) : IsWordChar(CharAt(s, k))}
    IN  IF hits = {} THEN Len(s) ELSE Least(hits)

WordEnd(s, i) ==
    LET hits == {k \in i..(Len(s) - 1) : ~IsWordChar(CharAt(s, k))}
    IN  IF hits = {} THEN Len(s) ELSE Least(hits)

RECURSIVE WordsFrom(_, _)
WordsUntil(s, b, e) == <<Slice(s, b, e)>> \o WordsFrom(s, e)

WordsAt(s, b) == IF b >= Len(s) THEN <<>> ELSE WordsUntil(s, b, WordEnd(s, b))

WordsFrom(s, i) == IF i >= Len(s) THEN <<>> ELSE WordsAt(s, WordStart(s, i))

Words(s) == WordsFrom(s, 0)

IsSignalIdentifier(ids, name) ==
    \E k \in 1..Len(ids) : ids[k].kind \in {"Signal", "Port"} /\ ids[k].key = Lower(name)

(* set([i for i in words if IsSignalIdentifier(i)]) *)
SignalsOf(words, ids) == {words[k] : k \in {j \in 1..Len(words) : IsSignalIdentifier(ids, words[j])}}

(* FindUsedVariables on a statement whose first `<=' (position p) has a    *)
(* plain name in front of it and whose other names stand behind it, or on  *)
(* a line without assignment; no statement of the model assigns with `:='. *)
LastOf(words) == IF words = <<>> THEN <<>> ELSE <<words[Len(words)]>>

FindUsedVariablesAt(line, p, ids) ==
    IF p > 0 /\ RFind(line, ";") > p
    THEN [write |-> SignalsOf(LastOf(Words(Slice(line, 0, p))), ids),
          read |-> SignalsOf(Words(Slice(line, p + 2, RFind(line, ";"))), ids),
          is_assign |-> TRUE]
    ELSE [write |-> {}, read |-> SignalsOf(Words(line), ids), is_assign |-> FALSE]

FindUsedVariables(line, ids) == FindUsedVariablesAt(line, Find(line, "<="), ids)

(* `for x in S' over a set of str: Python visits the elements in the order *)
(* of their salted hashes, here the order `seed' gives the names.          *)
RECURSIVE Iterate(_, _)
Iterate(S, seed) ==
    IF seed = <<>> THEN <<>>
    ELSE (IF Head(seed) \in S THEN <<Head(seed)>> ELSE <<>>) \o Iterate(S, Tail(seed))

Range(q) == {q[k] : k \in 1..Len(q)}

IsIdentifier(ids, name) == \E k \in 1..Len(ids) : ids[k].key = Lower(name)

GetIdentifier(ids, name) == CHOOSE i \in Range(ids) : i.key = Lower(name)

IncRefs(ids, name) ==
    [k \in 1..Len(ids) |->
        IF ids[k].key = Lower(name) THEN [ids[k] EXCEPT !.referenced = TRUE] ELSE ids[k]]

(* `for w in words' of CheckIdentifiersString: r is [errs, ids]. *)
RECURSIVE CheckIdentifiersWords(_, _, _, _)
CheckIdentifiersWords(line, line_num, words, r) ==
    IF words = <<>> THEN r
    ELSE IF ~IsIdentifier(r.ids, Head(words))
    THEN CheckIdentifiersWords(line, line_num, Tail(words), r)
    ELSE CheckIdentifiersWords(line, line_num, Tail(words),
             [errs |-> r.errs
                          \o (IF Head(words) # GetIdentifier(r.ids, Head(words)).name
                              THEN <<Diag(FromString(line_num, line, Head(words)),
                                          "readability/capitalization", 1,
                                          "Inconsistent capitalization on identifier '"
                                              \o Head(words) \o "'. Declared as '"
                                              \o GetIdentifier(r.ids, Head(words)).name
                                              \o "' on line "
                                              \o ToString(GetIdentifier(r.ids,
                                                     Head(words)).lineref.line))>>
                              ELSE <<>>),
              ids |-> IncRefs(r.ids, Head(words))])

(* The words of a line without quoted text. *)
CheckIdentifiersString(line, line_num, r) ==
    CheckIdentifiersWords(line, line_num, Words(line), r)

(* CheckIdentifiers on the lines l..last, as the loop of CheckProcess over *)
(* the declarations calls it; no identifier of the model is an output     *)
(* port, which is all that CheckReadIdentifiers looks for.                 *)
RECURSIVE CheckIdentifiersLines(_, _, _, _)
CheckIdentifiersLines(ls, l, last, r) ==
    IF l > last THEN r
    ELSE CheckIdentifiersLines(ls, l + 1, last,
                               CheckIdentifiersString(CleansedLine(ls, l), l, r))

(* IsIdentifierWithType: the signals, ports and constants; the model has   *)
(* no local variable.                                                      *)
IsIdentifierWithType(ids, name) ==
    \E k \in 1..Len(ids) : ids[k].kind \in WithType /\ ids[k].key = Lower(name)

(* GetIdentifierWithType(w).AddDriver(d) *)
AddDriver(ids, w, d) ==
    [k \in 1..Len(ids) |->
        IF ids[k].kind \in WithType /\ ids[k].key = Lower(w)
        THEN [ids[k] EXCEPT !.drivers = Append(@, d)]
        ELSE ids[k]]

RECURSIVE AddDrivers(_, _, _)
AddDrivers(ids, writes, d) ==
    IF writes = <<>> THEN ids ELSE AddDrivers(AddDriver(ids, Head(writes), d), Tail(writes), d)

GetDrivers(ids, w) ==
    (CHOOSE i \in Range(ids) : i.kind \in WithType /\ i.key = Lower(w)).drivers

(* HasMultipleDrivers with the equality of Driver, by line. *)
HasMultipleDriversByLine(drivers) == Cardinality({d.line : d \in Range(drivers)}) > 1

(* HasMultipleDrivers: the entries of the set that are no PossibleDriver   *)
(* are put into a second set, where none of them equals another.           *)
HasMultipleDrivers(drivers) ==
    Cardinality({d \in GetUniqueDrivers(drivers) : d.class # "PossibleDriver"}) > 1

(* The lines of the drivers but the last, as '%d,' each, the last comma cut. *)
RECURSIVE line_str(_)
line_str(drivers) ==
    IF Len(drivers) <= 1 THEN ""
    ELSE ToString(Head(drivers).line) \o (IF Len(drivers) > 2 THEN "," ELSE "")
             \o line_str(Tail(drivers))

(* The second `for w in write_vars' of a body line. *)
RECURSIVE MultipleDrivers(_, _, _, _)
MultipleDrivers(l, pline, writes, ids) ==
    IF writes = <<>> THEN <<>>
    ELSE (IF IsIdentifierWithType(ids, Head(writes))
             /\ HasMultipleDrivers(GetDrivers(ids, Head(writes)))
          THEN <<Diag(FromString(l, pline, Head(writes)), "runtime/multiple_drivers", 5,
                      "Multiple drivers on signal '" \o Head(writes)
                          \o "'. Previous drivers are on line(s): "
                          \o line_str(GetDrivers(ids, Head(writes))) \o ".")>>
          ELSE <<>>)
         \o MultipleDrivers(l, pline, Tail(writes), ids)

(* The test without the exception for `all'. *)
IsMissingDespiteAll(r, sensitivity_list, contains_all) ==
    Lower(r) \notin Range(sensitivity_list)

(* The test of the sensitivity check on one signal that a line reads. *)
IsMissing(r, sensitivity_list, contains_all) ==
    Lower(r) \notin Range(sensitivity_list) /\ ~contains_all

(* The sensitivity check of one line of the process body: `for r in        *)
(* read_vars', given as the sequence of the names visited.                 *)
RECURSIVE MissingSignals(_, _, _, _, _)
MissingSignals(l, pline, reads, sensitivity_list, contains_all) ==
    IF reads = <<>> THEN <<>>
    ELSE (IF IsMissing(Head(reads), sensitivity_list, contains_all)
          THEN <<Diag(FromString(l, pline, Head(reads)), "runtime/sensitivity", 5,
                      "Missing signal '" \o Head(reads) \o "' from sensitivity list")>>
          ELSE <<>>)
         \o MissingSignals(l, pline, Tail(reads), sensitivity_list, contains_all)

(* Match of  .*\brising_edge\s*\((name)\)  or of the falling_edge pattern: *)
(* the name between the brackets, None without match.  No line of the     *)
(* model holds 'event.                                                     *)
EdgeNameAt(pline, p, word) ==
    IF p < 0 \/ ~StartsWith(LStrip(SliceFrom(pline, p + Len(word))), "(")
       \/ FindFrom(pline, ")", p) < 0
    THEN None
    ELSE Slice(pline, FindFrom(pline, "(", p) + 1, FindFrom(pline, ")", p))

EdgeNameOf(pline, rising) ==
    IF rising # None THEN rising
    ELSE EdgeNameAt(pline, FindWord(pline, "falling_edge"), "falling_edge")

EdgeName(pline) ==
    EdgeNameOf(pline, EdgeNameAt(pline, FindWord(pline, "rising_edge"), "rising_edge"))

(* The loop that looks for the clock: [sequential, clk_name, clk_line]. *)
ClockAt(ls, lset) ==
    IF lset = {} THEN [sequential |-> FALSE, clk_name |-> "", clk_line |-> 0]
    ELSE [sequential |-> TRUE, clk_name |-> EdgeName(CleansedLine(ls, Least(lset))),
          clk_line |-> Least(lset)]

FindClock(ls, start_line, end_line) ==
    ClockAt(ls, {l \in start_line..(end_line - 1) : EdgeName(CleansedLine(ls, l)) # None})

(* The three patterns a clock name has to match one of:  ^(\w+.)?clk.* ,   *)
(* .*clk$  and  .*clk_i$ , letters compared without case.                  *)
ClockNameOk(name) ==
    \/ \E p \in 0..Len(name) : p # 1 /\ StartsWith(SliceFrom(Lower(name), p), "clk")
    \/ EndsWith(Lower(name), "clk")
    \/ EndsWith(Lower(name), "clk_i")

(* The checks of a sequential process with a sensitivity list. *)
CheckClock(ls, start_line, sensitivity_list, contains_all, c) ==
    (IF Lower(c.clk_name) \notin Range(sensitivity_list) /\ ~contains_all
     THEN <<Diag(FromString(c.clk_line, CleansedLine(ls, c.clk_line), c.clk_name),
                 "runtime/sensitivity", 5,
                 "Missing clock '" \o c.clk_name \o "' from sensitivity list")>>
     ELSE <<>>)
    \o (IF ~ClockNameOk(c.clk_name)
        THEN <<Diag(FromString(c.clk_line, CleansedLine(ls, c.clk_line), c.clk_name),
                    "readability/naming", 1,
                    "Invalid naming convention on clock signal '" \o c.clk_name
                        \o "'. Allowed conventions are [clk_*, *_clk, *_clk_i].")>>
        ELSE <<>>)
    \o (IF Len(sensitivity_list) > 2
        THEN <<Diag(OnlyLine(start_line), "runtime/sensitivity", 4,
                    "Superfluous items in sensitivity list. Sequential processes "
                        \o "should have at most 2 items (clock, async reset).")>>
        ELSE <<>>)

(* Match of the case pattern, and the search of its `end case' in the      *)
(* lines l..end_line-1; the case statements of the model have no label.    *)
IsCaseLine(pline) ==
    FindWord(pline, "case") >= 0 /\ FindWord(pline, "is") > FindWord(pline, "case")

HasEndCase(ls, l, end_line) ==
    \E k \in l..(end_line - 1) : FindWord(CleansedLine(ls, k), "end case") >= 0

(* One round of the body loop behind the case and loop parts: the drivers, *)
(* the inputs and the diagnostics of the line.  `st' is the state of       *)
(* CheckProcess: [errs, ids, process_inputs, process_drivers, returned].   *)
BodyLineWith(l, pline, used, r, p, st, seed) ==
    [errs |-> r.errs
                 \o MultipleDrivers(l, pline, Iterate(used.write, seed), r.ids)
                 \o (IF ~p.sim_process /\ ~p.sequential
                     THEN MissingSignals(l, pline, Iterate(used.read, seed),
                                         p.sensitivity_list, p.contains_all)
                     ELSE <<>>),
     ids |-> r.ids,
     process_inputs |-> st.process_inputs \cup {Lower(rd) : rd \in used.read},
     process_drivers |-> st.process_drivers \cup {Lower(w) : w \in used.write},
     returned |-> FALSE]

BodyLineUsed(l, pline, used, p, st, seed) ==
    BodyLineWith(l, pline, used,
                 CheckIdentifiersString(pline, l,
                     [errs |-> st.errs,
                      ids |-> AddDrivers(st.ids, Iterate(used.write, seed),
                                         ProcessDriver(p.start_line, l))]),
                 p, st, seed)

BodyLine(ls, l, p, st, seed) ==
    BodyLineUsed(l, CleansedLine(ls, l), FindUsedVariables(CleansedLine(ls, l), st.ids),
                 p, st, seed)

(* The loop of CheckProcess over the body lines l..end_line-1; a case      *)
(* statement without `end case' makes CheckProcess return.                 *)
RECURSIVE CheckProcessBody(_, _, _, _, _, _)
CheckProcessBody(ls, l, end_line, p, st, seed) ==
    IF l >= end_line THEN st
    ELSE IF IsCaseLine(CleansedLine(ls, l)) /\ ~HasEndCase(ls, l, end_line)
    THEN [st EXCEPT !.returned = TRUE]
    ELSE CheckProcessBody(ls, l + 1, end_line, p, BodyLine(ls, l, p, st, seed), seed)

(* `for item in sensitivity_list' *)
RECURSIVE ExtraSignals(_, _, _, _)
ExtraSignals(start_line, sline, sensitivity_list, inputs) ==
    IF sensitivity_list = <<>> THEN <<>>
    ELSE (IF Head(sensitivity_list) \notin inputs /\ Head(sensitivity_list) # "all"
          THEN <<Diag(FromString(start_line, sline, Head(sensitivity_list)),
                      "runtime/sensitivity", 4,
                      "Extra signal '" \o Head(sensitivity_list)
                          \o "' in sensitivity list.")>>
          ELSE <<>>)
         \o ExtraSignals(start_line, sline, Tail(sensitivity_list), inputs)

(* `for i in inter', given as the sequence of the names visited *)
RECURSIVE CombinationalLoops(_, _)
CombinationalLoops(start_line, inter) ==
    IF inter = <<>> THEN <<>>
    ELSE <<Diag(OnlyLine(start_line), "runtime/combinational_loop", 5,
                "Possible combinational loop detected on signal '" \o Head(inter) \o "'.")>>
         \o CombinationalLoops(start_line, Tail(inter))

(* The line of `begin', end_line + 1 when the process has none. *)
BodyLineOf(ls, start_line, end_line) ==
    LET begins == {l \in start_line..end_line : FindWord(CleansedLine(ls, l), "begin") >= 0}
    IN  IF begins = {} THEN end_line + 1 ELSE Least(begins)

(* The end of CheckProcess with the combinational loops looked for in the  *)
(* sequential processes as well.                                           *)
CheckProcessEndSequential(ls, p, st, scopes, seed) ==
    IF st.returned THEN [errs |-> st.errs, ids |-> st.ids, scopes |-> scopes]
    ELSE [errs |-> st.errs
                      \o ExtraSignals(p.start_line, CleansedLine(ls, p.start_line),
                                      p.sensitivity_list, st.process_inputs)
                      \o (IF ~p.sim_process
                          THEN CombinationalLoops(p.start_line,
                                   Iterate(st.process_drivers \cap st.process_inputs, seed))
                          ELSE <<>>),
          ids |-> st.ids,
          scopes |-> Pop(scopes)]

(* The end of CheckProcess with the extra items looked for in the          *)
(* combinational processes only.                                           *)
CheckProcessEndCombinational(ls, p, st, scopes, seed) ==
    IF st.returned THEN [errs |-> st.errs, ids |-> st.ids, scopes |-> scopes]
    ELSE [errs |-> st.errs
                      \o (IF ~p.sim_process /\ ~p.sequential
                          THEN ExtraSignals(p.start_line, CleansedLine(ls, p.start_line),
                                            p.sensitivity_list, st.process_inputs)
                               \o CombinationalLoops(p.start_line,
                                      Iterate(st.process_drivers \cap st.process_inputs, seed))
                          ELSE <<>>),
          ids |-> st.ids,
          scopes |-> Pop(scopes)]

(* The end of CheckProcess behind the body loop: the extra items, the      *)
(* combinational loops and RemoveLocalScope; none of it after a return     *)
(* from inside the loop.  The result is [errs, ids, scopes].               *)
CheckProcessEnd(ls, p, st, scopes, seed) ==
    IF st.returned THEN [errs |-> st.errs, ids |-> st.ids, scopes |-> scopes]
    ELSE [errs |-> st.errs
                      \o ExtraSignals(p.start_line, CleansedLine(ls, p.start_line),
                                      p.sensitivity_list, st.process_inputs)
                      \o (IF ~p.sim_process /\ ~p.sequential
                          THEN CombinationalLoops(p.start_line,
                                   Iterate(st.process_drivers \cap st.process_inputs, seed))
                          ELSE <<>>),
          ids |-> st.ids,
          scopes |-> Pop(scopes)]

(* The start of CheckProcess with the clock checked in every process that  *)
(* has a clock edge, with or without sensitivity list.                     *)
CheckProcessHeadOfEveryClock(ls, p) ==
    (IF p.contains_all
     THEN <<Diag(FromString(p.start_line, CleansedLine(ls, p.start_line), "all"),
                 "build/vhdl2008/sensitivity", 4,
                 "Avoid VHDL2008 construct 'all' in sensitivity list.")>>
     ELSE <<>>)
    \o (IF p.sequential
        THEN CheckClock(ls, p.start_line, p.sensitivity_list, p.contains_all, p.clock)
        ELSE <<>>)

(* The start of CheckProcess: the VHDL 2008 `all', the clock, and the loop *)
(* over the declarations up to `begin'.  The processes of the model have   *)
(* no label, no declaration and no duplicate in the sensitivity list.      *)
CheckProcessHead(ls, p) ==
    (IF p.contains_all
     THEN <<Diag(FromString(p.start_line, CleansedLine(ls, p.start_line), "all"),
                 "build/vhdl2008/sensitivity", 4,
                 "Avoid VHDL2008 construct 'all' in sensitivity list.")>>
     ELSE <<>>)
    \o (IF ~p.sim_process /\ p.sequential
        THEN CheckClock(ls, p.start_line, p.sensitivity_list, p.contains_all, p.clock)
        ELSE <<>>)

CheckProcessStart(ls, p, last, ids) ==
    CheckIdentifiersLines(ls, p.start_line, last, [errs |-> CheckProcessHead(ls, p), ids |-> ids])
        @@ [process_inputs |-> {}, process_drivers |-> {}, returned |-> FALSE]

ProcessFacts(start_line, sensitivity_list, clock) ==
    [start_line |-> start_line, sensitivity_list |-> sensitivity_list,
     contains_all |-> "all" \in Range(sensitivity_list),
     sim_process |-> Len(sensitivity_list) = 0,
     sequential |-> clock.sequential, clock |-> clock]

CheckProcessOf(ls, end_line, p, ids, scopes, seed) ==
    CheckProcessEnd(ls, p,
        CheckProcessBody(ls, BodyLineOf(ls, p.start_line, end_line), end_line, p,
                         CheckProcessStart(ls, p,
                             Min(BodyLineOf(ls, p.start_line, end_line), end_line), ids),
                         seed),
        Append(scopes, <<>>), seed)

CheckProcess(ls, start_line, end_line, sensitivity_list, ids, scopes, seed) ==
    CheckProcessOf(ls, end_line,
                   ProcessFacts(start_line, sensitivity_list,
                                FindClock(ls, start_line, end_line)),
                   ids, scopes, seed)

(* Search of  \bprocess\s*\( : the position of the bracket, -1 without match. *)
ProcessOpenAt(text, process) ==
    IF process >= 0 /\ StartsWith(LStrip(SliceFrom(text, process + 7)), "(")
    THEN FindFrom(text, "(", process + 7)
    ELSE -1

ProcessOpen(text) == ProcessOpenAt(text, FindWord(text, "process"))

allowed_in_sensitivity(ids, i) == Lower(i) = "all" \/ IsSignalIdentifier(ids, i)

SensitivityListAt(ls, line_num, ids, pos) ==
    IF pos < 0 THEN <<>>
    ELSE SelectSeq(Words(Lower(ExtractExpression(ls, line_num, pos).string)),
                   LAMBDA i : allowed_in_sensitivity(ids, i))

SensitivityList(ls, line_num, ids) ==
    SensitivityListAt(ls, line_num, ids, ProcessOpen(CleansedLine(ls, line_num)))

(* Match of the process pattern on a line without label: `process' is the  *)
(* first word of the line.                                                 *)
IsProcessStart(text) == StartsWith(LStrip(text), "process") /\ FindWord(text, "process") >= 0

(* Match of  .*\bend\s+process\b  for a process without label. *)
IsProcessEnd(text) == FindWord(text, "end process") >= 0

CheckProcessesUntil(ls, line_num, ids, scopes, seed, ends) ==
    IF ~IsProcessStart(CleansedLine(ls, line_num)) \/ ends = {}
    THEN [match |-> FALSE, end_line |-> 0, errs |-> <<>>, ids |-> ids, scopes |-> scopes]
    ELSE [match |-> TRUE, end_line |-> Least(ends)]
             @@ CheckProcess(ls, line_num, Least(ends), SensitivityList(ls, line_num, ids),
                             ids, scopes, seed)

(* CheckProcesses: [match, end_line] and the error() calls, the symbol     *)
(* table and the local scopes it leaves.                                   *)
CheckProcesses(ls, line_num, ids, scopes, seed) ==
    CheckProcessesUntil(ls, line_num, ids, scopes, seed,
        {l \in line_num..(NumLines(ls) - 1) : IsProcessEnd(CleansedLine(ls, l))})

-----------------------------------------------------------------------------
(* Declarations, architectures and packages. *)

UpperChar(c) == IF Find(LowerCase, c) >= 0 THEN CharAt(UpperCase, Find(LowerCase, c)) ELSE c

(* s.upper() *)
RECURSIVE Upper(_)
Upper(s) == IF s = "" THEN "" ELSE UpperChar(SubSeq(s, 1, 1)) \o Upper(SubSeq(s, 2, Len(s)))

isupper(name) == name = Upper(name)

(* MatchDeclaration with req_decl_type: the declarations of the model are  *)
(* written  signal sa : std_logic;  and  constant C_FOO : integer := 3; ,  *)
(* one name each, and no signal is an integer.                             *)
DeclaredAs(words, text, decl_type) ==
    IF Len(words) >= 2 /\ Lower(words[1]) = decl_type /\ Find(text, ":") >= 0
    THEN words[2]
    ELSE None

MatchDeclaration(text, req_decl_type) == DeclaredAs(Words(text), text, req_decl_type)

AddConstantIdentifierAnywhere(ids, name, lineref, in_pkg) ==
    AddDriver(AddIdentifier(ids, Identifier(name, "Constant", lineref)),
              name, Driver(NoScope, lineref.line))

(* AddConstantIdentifier, AddDriver and, in a package, IncRefs: `in a      *)
(* package we assume the identifier will be used externally'.              *)
AddConstantIdentifier(ids, name, lineref, in_pkg) ==
    IF in_pkg
    THEN IncRefs(AddDriver(AddIdentifier(ids, Identifier(name, "Constant", lineref)),
                           name, Driver(NoScope, lineref.line)), name)
    ELSE AddDriver(AddIdentifier(ids, Identifier(name, "Constant", lineref)),
                   name, Driver(NoScope, lineref.line))

(* CheckConstants on a line that declares `name': r is [errs, ids]. *)
CheckConstantsNamed(name, lineref, in_pkg, r) ==
    IF name = None THEN r
    ELSE [errs |-> r.errs
                   \o (IF ~isupper(name)
                       THEN <<Diag(lineref, "readability/constants", 1,
                                   "Invalid capitalization on '" \o name
                                       \o "'. Constant names should use all upper case.")>>
                       ELSE <<>>)
                   \o (IF ~StartsWith(Upper(name), "C_")
                       THEN <<Diag(lineref, "readability/naming", 1,
                                   "Invalid naming convention on '" \o name
                                       \o "'. Constant names should use prefix 'C_'.")>>
                       ELSE <<>>),
          ids |-> AddConstantIdentifier(r.ids, name, lineref, in_pkg)]

CheckConstantsOn(line, line_num, name, in_pkg, r) ==
    CheckConstantsNamed(name, IF name = None THEN None ELSE FromString(line_num, line, name),
                        in_pkg, r)

CheckConstants(ls, line_num, in_pkg, r) ==
    CheckConstantsOn(CleansedLine(ls, line_num), line_num,
                     MatchDeclaration(CleansedLine(ls, line_num), "constant"), in_pkg, r)

CheckSignalsOn(line, line_num, name, r) ==
    IF name = None THEN r
    ELSE [errs |-> r.errs \o CheckCapitalization(name, FromString(line_num, line, name)),
          ids |-> AddIdentifier(r.ids,
                      Identifier(name, "Signal", FromString(line_num, line, name)))]

CheckSignals(ls, line_num, r) ==
    CheckSignalsOn(CleansedLine(ls, line_num), line_num,
                   MatchDeclaration(CleansedLine(ls, line_num), "signal"), r)

(* Match of  \s*\barchitecture\s+(.+?)\s+of\s+(.+?)\s+is : the            *)
(* architectures of the model are named rtl.                               *)
ArchitectureName(text) ==
    IF StartsWith(LStrip(text), "architecture rtl of ") /\ FindWord(text, "is") >= 0
    THEN "rtl"
    ELSE None

(* Match of  .*\bend\s+(architecture|rtl|architecture\s+rtl)\b *)
IsArchitectureEnd(text) ==
    FindWord(text, "end architecture") >= 0 \/ FindWord(text, "end rtl") >= 0

(* Match of  \s*\bbegin\b *)
IsBegin(text) == FindWord(LStrip(text), "begin") = 0

(* The loop of CheckArchitecture over the declarations: the line it stops  *)
(* on, and what the declarations in front of it leave.  The model has no   *)
(* function, procedure, component, record, type or assert.                 *)
RECURSIVE ArchitectureDeclarations(_, _, _, _)
ArchitectureDeclarations(ls, l, end_line, r) ==
    IF l > end_line \/ IsBegin(CleansedLine(ls, l)) THEN [l |-> l, r |-> r]
    ELSE ArchitectureDeclarations(ls, l + 1, end_line,
             CheckSignals(ls, l,
                 CheckConstants(ls, l, FALSE,
                     CheckIdentifiersString(CleansedLine(ls, l), l, r))))

(* The loop of CheckArchitecture over the body: r is [errs, ids, scopes].  *)
(* The model has no port map.                                              *)
WithScopes(c, scopes) == [errs |-> c.errs, ids |-> c.ids, scopes |-> scopes]

RECURSIVE ArchitectureBody(_, _, _, _, _)
ArchitectureBodyLine(ls, l, end_line, r, seed, p) ==
    IF p.match
    THEN ArchitectureBody(ls, p.end_line + 1, end_line,
             [errs |-> r.errs \o p.errs, ids |-> p.ids, scopes |-> p.scopes], seed)
    ELSE ArchitectureBody(ls, l + 1, end_line,
             WithScopes(CheckIdentifiersString(CleansedLine(ls, l), l,
                            [errs |-> r.errs, ids |-> r.ids]), r.scopes), seed)

ArchitectureBody(ls, l, end_line, r, seed) ==
    IF l > end_line THEN r
    ELSE ArchitectureBodyLine(ls, l, end_line, r, seed,
                              CheckProcesses(ls, l, r.ids, r.scopes, seed))

BlankLineBefore(ls, l, block) ==
    IF ~IsPrevLineBlankOrComment(ls, l)
    THEN <<Diag(OnlyLine(l), "whitespace/blank_line", 4,
                "Blank line should come before " \o block \o ".")>>
    ELSE <<>>

BlankLineAfter(ls, l, block) ==
    IF ~IsNextLineBlankOrComment(ls, l)
    THEN <<Diag(OnlyLine(l), "whitespace/blank_line", 4,
                "Blank line should come after " \o block \o ".")>>
    ELSE <<>>

CheckArchitectureEnd(ls, end_line, r) ==
    [r EXCEPT !.errs = @ \o BlankLineBefore(ls, end_line, "architecture end")]

CheckArchitectureBegin(ls, end_line, scopes, seed, d) ==
    CheckArchitectureEnd(ls, end_line,
        ArchitectureBody(ls, d.l, end_line,
            [errs |-> d.r.errs \o BlankLineBefore(ls, d.l, "architecture begin")
                               \o BlankLineAfter(ls, d.l, "architecture begin"),
             ids |-> d.r.ids, scopes |-> scopes], seed))

CheckArchitectureStart(ls, start_line, name) ==
    CheckCapitalization(name, FromString(start_line, CleansedLine(ls, start_line), name))
    \o BlankLineBefore(ls, start_line, "architecture declaration")
    \o BlankLineAfter(ls, start_line, "architecture declaration")

CheckArchitecture(ls, start_line, end_line, name, ids, scopes, seed) ==
    CheckArchitectureBegin(ls, end_line, scopes, seed,
        ArchitectureDeclarations(ls, start_line, end_line,
            [errs |-> CheckArchitectureStart(ls, start_line, name),
             ids |-> AddIdentifier(ids, Identifier(name, "Identifier",
                         FromString(start_line, CleansedLine(ls, start_line), name)))]))

CheckArchitecturesNamed(ls, line_num, ids, scopes, seed, name, ends) ==
    IF name = None \/ ends = {} THEN [errs |-> <<>>, ids |-> ids, scopes |-> scopes]
    ELSE CheckArchitecture(ls, line_num, Least(ends), name, ids, scopes, seed)

CheckArchitectures(ls, line_num, ids, scopes, seed) ==
    CheckArchitecturesNamed(ls, line_num, ids, scopes, seed,
        ArchitectureName(CleansedLine(ls, line_num)),
        {l \in line_num..(NumLines(ls) - 1) : IsArchitectureEnd(CleansedLine(ls, l))})

(* Match of  \s*\bpackage\s+(\w+?)\s+is : the packages of the model are   *)
(* named p.                                                                *)
PackageName(text) == IF StartsWith(LStrip(text), "package p is") THEN "p" ELSE None

(* Match of  .*\bend\s+(package|p|package\s+p)\b *)
IsPackageEnd(text) == FindWord(text, "end package") >= 0 \/ FindWord(text, "end p") >= 0

(* The loop of CheckPackage over start_line..end_line; the model has no    *)
(* function, procedure, record or type.                                    *)
RECURSIVE PackageLines(_, _, _, _)
PackageLines(ls, l, end_line, r) ==
    IF l > end_line THEN r
    ELSE PackageLines(ls, l + 1, end_line,
             CheckConstants(ls, l, TRUE,
                 CheckIdentifiersString(CleansedLine(ls, l), l, r)))

CheckPackageStart(ls, start_line, name) ==
    CheckCapitalization(name, FromString(start_line, CleansedLine(ls, start_line), name))
    \o BlankLineBefore(ls, start_line, "package declaration")
    \o BlankLineAfter(ls, start_line, "package declaration")

CheckPackageEnd(ls, end_line, r) ==
    [r EXCEPT !.errs = @ \o BlankLineBefore(ls, end_line, "package end")
                         \o BlankLineAfter(ls, end_line, "package end")]

CheckPackage(ls, start_line, end_line, name, ids) ==
    CheckPackageEnd(ls, end_line,
        PackageLines(ls, start_line, end_line,
            [errs |-> CheckPackageStart(ls, start_line, name),
             ids |-> AddIdentifier(ids, Identifier(name, "Identifier",
                         FromString(start_line, CleansedLine(ls, start_line), name)))]))

CheckPackagesNamed(ls, line_num, ids, name, ends) ==
    IF name = None \/ ends = {} THEN [errs |-> <<>>, ids |-> ids]
    ELSE CheckPackage(ls, line_num, Least(ends), name, ids)

CheckPackages(ls, line_num, ids) ==
    CheckPackagesNamed(ls, line_num, ids, PackageName(CleansedLine(ls, line_num)),
        {l \in line_num..(NumLines(ls) - 1) : IsPackageEnd(CleansedLine(ls, l))})

-----------------------------------------------------------------------------
(* ProcessLine: the rules a line of the model can trigger, in call order;  *)
(* an exception ends the call.  The result is the error() calls, the       *)
(* symbol table, the local scopes and the exception.                       *)
ProcessLineRules(ls, n, r) ==
    [r EXCEPT !.errs = @ \o CheckLineLength(ls, n) \o CheckLatches(ls, n)]

ProcessLinePackages(ls, n, a, p) ==
    ProcessLineRules(ls, n,
        [errs |-> a.errs \o p.errs, ids |-> p.ids, scopes |-> a.scopes, exc |-> ""])

ProcessLineArchitectures(ls, n, e, a) ==
    ProcessLinePackages(ls, n, [a EXCEPT !.errs = e.errs \o @],
                        CheckPackages(ls, n, a.ids))

ProcessLineEntities(ls, n, scopes, seed, style, e) ==
    IF e.exc # ""
    THEN [errs |-> style \o e.errs, ids |-> e.ids, scopes |-> scopes, exc |-> e.exc]
    ELSE ProcessLineArchitectures(ls, n, [e EXCEPT !.errs = style \o @],
                                  CheckArchitectures(ls, n, e.ids, scopes, seed))

ProcessLine(ls, filename, n, ids, scopes, seed) ==
    ProcessLineEntities(ls, n, scopes, seed, CheckStyle(ls, n),
                        CheckEntities(ls, filename, n, ids))

-----------------------------------------------------------------------------
(* ProcessFileData, one step per call it makes.  A step hands its error()  *)
(* calls to `pending'; they are executed, oldest first, before the next    *)
(* step.  No line of the model holds a NUL or a replacement character, so  *)
(* CheckForBadCharacters reports nothing.                                  *)

Running == exception = "" /\ pending = <<>>

Goto(label) == pc' = label

current_filename == files[fileix].name

(* ResetNolintSuppressions and ResetFileData *)
ResetStep ==
    /\ Running /\ pc = "reset"
    /\ ResetNolintSuppressions
    /\ all_identifiers' = <<>>
    /\ TypedIdentifiers(<<>>)
    /\ local_identifiers' = <<>>
    /\ Goto("header")
    /\ UNCHANGED <<sinkVars, globalVars, locals, mainVars, runVars, lines, clean_lines, linenum, pending,
                   exception>>

HeaderStep ==
    /\ Running /\ pc = "header"
    /\ pending' = CheckForHeader(lines)
    /\ Goto("copyright")
    /\ UNCHANGED <<sinkVars, globalVars, tableVars, locals, mainVars, runVars, error_suppressions,
                   error_suppressions_region, all_identifiers,
                   local_identifiers, lines, clean_lines, linenum, exception>>

CopyrightStep ==
    /\ Running /\ pc = "copyright"
    /\ pending' = CheckForCopyright(lines)
    /\ Goto("multiline")
    /\ UNCHANGED <<sinkVars, globalVars, tableVars, locals, mainVars, runVars, error_suppressions,
                   error_suppressions_region, all_identifiers,
                   local_identifiers, lines, clean_lines, linenum, exception>>

MultiLineStep ==
    /\ Running /\ pc = "multiline"
    /\ \E r \in {RemoveMultiLineComments(lines, 0)} :
           /\ lines' = r.lines
           /\ clean_lines' = CleansedLines(r.lines)
           /\ pending' = r.errs
    /\ Goto("nolint") /\ linenum' = 0
    /\ UNCHANGED <<sinkVars, globalVars, tableVars, locals, mainVars, runVars, error_suppressions,
                   error_suppressions_region, all_identifiers, local_identifiers, exception>>

NolintDirectiveStep ==
    /\ Running /\ pc = "nolint"
    /\ LET r == ParseNolintDirective(At(lines, linenum), linenum)
       IN  /\ error_suppressions' = r.supp
           /\ error_suppressions_region' = r.region
           /\ pending' = r.errs
    /\ Goto("nolint_region")
    /\ UNCHANGED <<sinkVars, globalVars, tableVars, locals, mainVars, runVars, all_identifiers,
                   local_identifiers, lines, clean_lines, linenum,
                   exception>>

NolintRegionStep ==
    /\ Running /\ pc = "nolint_region"
    /\ error_suppressions' = ParseNolintRegion(linenum)
    /\ IF linenum + 1 < NumLines(lines)
       THEN Goto("nolint") /\ linenum' = linenum + 1
       ELSE Goto("process") /\ linenum' = 0
    /\ UNCHANGED <<sinkVars, globalVars, tableVars, locals, mainVars, runVars, error_suppressions_region,
                   all_identifiers, local_identifiers, lines, clean_lines, pending, exception>>

ProcessLineStep ==
    /\ Running /\ pc = "process"
    /\ \E r \in {ProcessLine(lines, current_filename, linenum, all_identifiers,
                            local_identifiers, hash_seed)} :
           /\ pending' = r.errs
           /\ all_identifiers' = r.ids
           /\ TypedIdentifiers(r.ids)
           /\ local_identifiers' = r.scopes
           /\ IF r.exc # "" THEN Goto("raise") /\ UNCHANGED linenum
              ELSE IF linenum + 1 < NumLines(lines)
              THEN Goto("process") /\ linenum' = linenum + 1
              ELSE Goto("unused") /\ UNCHANGED linenum
    /\ UNCHANGED <<sinkVars, globalVars, locals, mainVars, runVars, error_suppressions,
                   error_suppressions_region, lines, clean_lines, exception>>

UnusedStep ==
    /\ Running /\ pc = "unused"
    /\ pending' = CheckUnusedIdentifiers(all_identifiers)
    /\ Goto("eof")
    /\ UNCHANGED <<sinkVars, globalVars, tableVars, locals, mainVars, runVars, error_suppressions,
                   error_suppressions_region, all_identifiers,
                   local_identifiers, lines, clean_lines, linenum, exception>>

EofStep ==
    /\ Running /\ pc = "eof"
    /\ pending' = CheckForNewlineAtEOF(lines)
    /\ Goto("done")
    /\ UNCHANGED <<sinkVars, globalVars, tableVars, locals, mainVars, runVars, error_suppressions,
                   error_suppressions_region, all_identifiers,
                   local_identifiers, lines, clean_lines, linenum, exception>>

(* The IndexError of CheckPorts leaves ProcessLine, ProcessFileData,       *)
(* ProcessFile and main: nothing catches it.                               *)
RaiseStep ==
    /\ Running /\ pc = "raise"
    /\ exception' = "IndexError"
    /\ UNCHANGED <<sinkVars, globalVars, tableVars, locals, mainVars, runVars, error_suppressions,
                   error_suppressions_region, all_identifiers,
                   local_identifiers, lines, clean_lines, pc, linenum,
                   pending>>

Next ==
    \/ ResetStep
    \/ HeaderStep
    \/ CopyrightStep
    \/ MultiLineStep
    \/ NolintDirectiveStep
    \/ NolintRegionStep
    \/ ProcessLineStep
    \/ UnusedStep
    \/ EofStep
    \/ Error

-----------------------------------------------------------------------------
(* Files and settings. *)

Bodies(universe) == UNION {[1..n -> universe] : n \in 1..MaxLines}

FileOf(body) == <<FirstMarker>> \o body \o <<LastMarker>>

(* The options of a VHDLLINT.cfg: the filter entries, and for linelength,  *)
(* extensions and root the value given, as a sequence that is empty when   *)
(* the file does not set the option.                                       *)
NoCfg == [filters |-> <<>>, linelength |-> <<>>, extensions |-> <<>>, root |-> <<>>]

File(name, cfg, body) == [name |-> name, cfg |-> cfg, body |-> body]

(* The orders a set of names can be visited in. *)
Orders(names) ==
    {q \in [1..Cardinality(names) -> names] : \A i, j \in 1..Cardinality(names) : i # j => q[i] # q[j]}

(* The first run of the program on an input whose sets of str hold `names'. *)
InitRun(names) ==
    /\ hash_seed \in Orders(names)
    /\ runs = <<>>

(* ProcessFileData is entered for the one file t.vhd. *)
InitFile(universe) ==
    /\ InitRun({})
    /\ \E body \in Bodies(universe) :
           /\ files = <<File("t.vhd", NoCfg, body)>>
           /\ lines = FileOf(body)
    /\ fileix = 1
    /\ error_suppressions = {}
    /\ error_suppressions_region = {}
    /\ all_identifiers = <<>>
    /\ InitTyped(all_identifiers)
    /\ locals = NoLocals
    /\ local_identifiers = <<>>
    /\ pc = "reset"
    /\ linenum = 0
    /\ clean_lines = NoCleansedLines
    /\ pending = <<>>
    /\ exception = ""

(* _LintState() and the globals as ParseArguments leaves them. *)
InitSink(levels, cli_filters, countings) ==
    /\ verbose_level \in levels
    /\ \E f \in cli_filters : filters = DEFAULT_FILTERS \o f
    /\ filters_backup = filters
    /\ counting \in countings
    /\ error_count = 0
    /\ errors_by_category = [k \in {} |-> 0]
    /\ stderr = <<>>
    /\ line_length = DefaultLineLength
    /\ valid_extensions = {}
    /\ root = None

Levels == {1, 2, 5}
FilterChoices == { <<>>, <<"-whitespace">>, <<"-whitespace", "+whitespace/tab">> }
Countings == {"", "toplevel", "detailed"}

RuleLines == { Plain(""), Plain("\tx <= y;"), Plain("y <= a when s;"), Plain("/*") }

Init == InitSink(Levels, FilterChoices, Countings) /\ InitFile(RuleLines)

Spec == Init /\ [][Next]_vars

-----------------------------------------------------------------------------
(* The filter on its own: one error() call under a filter list given on    *)
(* the command line (SetFilters: the defaults, then the entries given).    *)

MaxFilters == 3

FilterEntries == { "-whitespace", "+whitespace", "-whitespace/tab", "+whitespace/tab",
                   "-runtime", "+" }

FilterLists == UNION {[1..n -> FilterEntries] : n \in 0..MaxFilters}

ProbeCategories == { "whitespace/tab", "whitespace/blank_line", "runtime/latches" }

InitFilter ==
    /\ InitRun({})
    /\ verbose_level = 1
    /\ \E f \in FilterLists : filters = DEFAULT_FILTERS \o f
    /\ filters_backup = filters
    /\ line_length = DefaultLineLength
    /\ valid_extensions = {}
    /\ root = None
    /\ files = <<File("t.vhd", NoCfg, <<Plain("\ty <= a when s;"), Plain("")>>)>>
    /\ fileix = 1
    /\ all_identifiers = <<>>
    /\ InitTyped(all_identifiers)
    /\ locals = NoLocals
    /\ local_identifiers = <<>>
    /\ counting = "detailed"
    /\ error_count = 0
    /\ errors_by_category = [k \in {} |-> 0]
    /\ stderr = <<>>
    /\ error_suppressions = {}
    /\ error_suppressions_region = {}
    /\ lines = FileOf(<<Plain("\ty <= a when s;"), Plain("")>>)
    /\ clean_lines = CleansedLines(lines)
    /\ pc = "done"
    /\ linenum = 0
    /\ \E category \in ProbeCategories :
           pending = <<Diag(OnlyLine(1), category, 5, "probe")>>
    /\ exception = ""

NextFilter == Error

SpecFilter == InitFilter /\ [][NextFilter]_vars

-----------------------------------------------------------------------------
(* Properties of the diagnostic sink. *)

Prefix(one_filter) == SubSeq(one_filter, 2, Len(one_filter))

Matching(fs, category) == {i \in 1..Len(fs) : StartsWith(category, Prefix(fs[i]))}

Last(S) == CHOOSE i \in S : \A j \in S : j <= i

LastMatchDrops(fs, category) ==
    /\ Matching(fs, category) # {}
    /\ StartsWith(fs[Last(Matching(fs, category))], "-")

GatesPass(d) ==
    /\ <<d.category, d.lineref.line>> \notin error_suppressions
    /\ <<None, d.lineref.line>> \notin error_suppressions
    /\ d.confidence >= verbose_level
    /\ ~LastMatchDrops(filters, d.category)

Counted(d) ==
    /\ error_count' = error_count + 1
    /\ counting = "" => errors_by_category' = errors_by_category
    /\ counting # "" =>
           LET key == IF counting = "detailed" THEN d.category ELSE TopLevel(d.category)
               old == IF key \in DOMAIN errors_by_category
                      THEN errors_by_category[key] ELSE 0
           IN  /\ DOMAIN errors_by_category' = DOMAIN errors_by_category \cup {key}
               /\ errors_by_category'[key] = old + 1
               /\ \A k \in DOMAIN errors_by_category \ {key} :
                      errors_by_category'[k] = errors_by_category[k]

C2_LastMatchWins ==
    [][pending # <<>> =>
          (stderr' = stderr <=> LastMatchDrops(filters, Head(pending).category))]_vars

(* With -whitespace,+whitespace/tab a whitespace/tab diagnostic passed. *)
C2_Witness ==
    /\ filters = DEFAULT_FILTERS \o << "-whitespace", "+whitespace/tab" >>
    /\ pending = <<>>
    /\ Len(stderr) = 1 /\ stderr[1].category = "whitespace/tab"

(* With -whitespace,+whitespace/tab a whitespace/blank_line diagnostic was dropped. *)
C2_WitnessDropped ==
    /\ filters = DEFAULT_FILTERS \o << "-whitespace", "+whitespace/tab" >>
    /\ pending = <<>> /\ stderr = <<>> /\ error_count = 0

-----------------------------------------------------------------------------
(* Files of NOLINT directives, linted under the default settings. *)

Latch == "\ty <= a when s;"

NolintLines == {
    Plain(Latch), Plain("/*"),
    Line(Latch, "NOLINT", "(*)"), Line(Latch, "NOLINT", "(whitespace/tab)"),
    Line(Latch, "NOLINT", "(bogus)"),
    Line("", "NOLINTNEXTLINE", ""), Line("", "NOLINTNEXTLINE", "(runtime/latches)"),
    Line("", "NOLINTNEXTLINE", "(readability/nolint)"),
    Line("", "NOLINT", "(readability/multiline_comment)") }

InitNolint == InitSink({1}, {<<>>}, {""}) /\ InitFile(NolintLines)

SpecNolint == InitNolint /\ [][Next]_vars

RegionLines == {
    Plain(Latch), Line("", "NOLINT", "(bogus)"),
    Line("", "NOLINTBEGIN", "(whitespace/tab)"), Line(Latch, "NOLINTEND", "(whitespace/tab)"),
    Line("", "NOLINTBEGIN", "(readability/nolint)"),
    Line("", "NOLINTEND", "(readability/nolint)"),
    Line(Latch, "NOLINTBEGIN", ""), Plain("/*"), Plain("*/") }

InitRegion == InitSink({1}, {<<>>}, {""}) /\ InitFile(RegionLines)

SpecRegion == InitRegion /\ [][Next]_vars

-----------------------------------------------------------------------------
(* Files with an entity and a port list, linted under the default settings. *)

ExprLines == {
    Plain("entity t is port ("), Plain("a : in std_logic"), Plain("a : in std_logic);"),
    Plain("a : in std_logic]"), Plain("end entity;"), Plain("") }

InitExpr == InitSink({1}, {<<>>}, {""}) /\ InitFile(ExprLines)

NextExpr == Next \/ RaiseStep

SpecExpr == InitExpr /\ [][NextExpr]_vars

-----------------------------------------------------------------------------
(* main: ProcessFile for one file after the other, each under the          *)
(* VHDLLINT.cfg of its own directory.  ProcessFileData runs in between as  *)
(* the steps above.                                                        *)

MaxFiles == 2       \* most file names on the command line

FileExtension(name) == SliceFrom(name, RFind(name, ".") + 1)

GetAllExtensions(extensions) == IF extensions # {} THEN extensions ELSE DefaultExtensions

(* ProcessFile up to the call of ProcessFileData: _BackupFilters, then     *)
(* ProcessConfigOverrides (linelength, extensions, root, and the filter    *)
(* entries added last), the file is read and its extension checked.  A     *)
(* file with another extension is skipped with a message that is no        *)
(* diagnostic.                                                             *)
ProcessFileBegin ==
    /\ Running /\ pc = "begin"
    /\ filters_backup' = filters
    /\ \E cfg \in {files[fileix].cfg} :
           /\ line_length' = IF cfg.linelength # <<>> THEN cfg.linelength[1] ELSE line_length
           /\ valid_extensions' =
                  IF cfg.extensions # <<>> THEN cfg.extensions[1] ELSE valid_extensions
           /\ root' = IF cfg.root # <<>> THEN cfg.root[1] ELSE root
           /\ filters' = AddFilters(filters, cfg.filters)
    /\ lines' = FileOf(files[fileix].body)
    /\ clean_lines' = NoCleansedLines
    /\ IF ~FiltersValid(filters')
       THEN exception' = "ValueError" /\ UNCHANGED pc
       ELSE /\ UNCHANGED exception
            /\ IF FileExtension(current_filename) \in GetAllExtensions(valid_extensions')
               THEN Goto("reset") ELSE Goto("done")
    /\ UNCHANGED <<verbose_level, counting, error_count, errors_by_category, stderr,
                   mainVars, runVars, error_suppressions, error_suppressions_region,
                   all_identifiers, local_identifiers, tableVars, locals, linenum,
                   pending>>

(* The end of ProcessFile, _RestoreFilters, and the next round of the loop *)
(* of main.                                                                *)
ProcessFileEnd ==
    /\ Running /\ pc = "done"
    /\ filters' = filters_backup
    /\ IF fileix < Len(files)
       THEN fileix' = fileix + 1 /\ Goto("begin")
       ELSE UNCHANGED fileix /\ Goto("exit")
    /\ UNCHANGED <<verbose_level, counting, error_count, errors_by_category, stderr,
                   globalVars, tableVars, locals, files, runVars, error_suppressions,
                   error_suppressions_region,
                   all_identifiers, local_identifiers, lines, clean_lines,
                   linenum, pending, exception>>

FileNames == {"a.vhd", "b.v"}

CfgChoices == {
    NoCfg,
    [NoCfg EXCEPT !.linelength = <<10>>],
    [NoCfg EXCEPT !.extensions = <<{"v"}>>],
    [NoCfg EXCEPT !.root = <<"src">>],
    [NoCfg EXCEPT !.filters = <<"-whitespace/tab">>] }

FileBodies == { <<Line("\tx <= y;", "NOLINT", "(runtime/latches)")>>,
                <<Plain("y <= a when s;")>> }

FileChoices == {File(n, c, b) : n \in FileNames, c \in CfgChoices, b \in FileBodies}

InitFiles ==
    /\ InitSink({1}, {<<>>}, {""})
    /\ InitRun({})
    /\ files \in UNION {[1..n -> FileChoices] : n \in 1..MaxFiles}
    /\ fileix = 1
    /\ lines = <<>>
    /\ error_suppressions = {}
    /\ error_suppressions_region = {}
    /\ all_identifiers = <<>>
    /\ InitTyped(all_identifiers)
    /\ locals = NoLocals
    /\ local_identifiers = <<>>
    /\ pc = "begin"
    /\ linenum = 0
    /\ clean_lines = NoCleansedLines
    /\ pending = <<>>
    /\ exception = ""

NextFiles == Next \/ ProcessFileBegin \/ ProcessFileEnd

SpecFiles == InitFiles /\ [][NextFiles]_vars

-----------------------------------------------------------------------------
(* The process check, run more than once on the same input: each run is a  *)
(* new interpreter with its own hash salt.                                 *)

MaxStatements == 2  \* most statements of the process body
MaxRuns == 2        \* most runs of the program on the input

SignalNames == {"sa", "sb", "sy", "clk"}

(* CheckSignals has declared the signals of the architecture. *)
DeclaredSignals ==
    <<Identifier("sa", "Signal", OnlyLine(1)), Identifier("sb", "Signal", OnlyLine(1)),
      Identifier("sy", "Signal", OnlyLine(1)), Identifier("clk", "Signal", OnlyLine(1))>>

(* One round of the loop of CheckArchitecture over the architecture body,  *)
(* on a body made of processes: a process is checked and skipped.          *)
CheckProcessesNext(r, next) ==
    /\ pending' = r.errs
    /\ all_identifiers' = r.ids
    /\ TypedIdentifiers(r.ids)
    /\ local_identifiers' = r.scopes
    /\ linenum' = next
    /\ IF next < NumLines(lines) - 1 THEN Goto("check_process") ELSE Goto("process_done")

CheckProcessesStep ==
    /\ Running /\ pc = "check_process"
    /\ \E r \in {CheckProcesses(lines, linenum, all_identifiers, local_identifiers,
                                 hash_seed)} :
           CheckProcessesNext(r, IF r.match THEN r.end_line + 1 ELSE linenum + 1)
    /\ UNCHANGED <<sinkVars, globalVars, locals, mainVars, runVars, error_suppressions,
                   error_suppressions_region, lines, clean_lines, exception>>

(* The program is started again on the same input. *)
NextRun ==
    /\ Running /\ pc = "process_done"
    /\ Len(runs) < MaxRuns - 1
    /\ runs' = Append(runs, stderr)
    /\ hash_seed' \in Orders(SignalNames)
    /\ stderr' = <<>>
    /\ error_count' = 0
    /\ errors_by_category' = [k \in {} |-> 0]
    /\ all_identifiers' = DeclaredSignals
    /\ TypedIdentifiers(DeclaredSignals)
    /\ local_identifiers' = <<>>
    /\ linenum' = 1
    /\ Goto("check_process")
    /\ UNCHANGED <<verbose_level, filters, filters_backup, counting, globalVars, locals, mainVars,
                   error_suppressions, error_suppressions_region, lines, clean_lines,
                   pending, exception>>

ProcessHeads == {"process(sy)", "process(sa, sb)", "process"}
Statements == {"sy <= sa and sb;", "sa <= sy and sa;", "sb <= sy;"}

ProcessBodies ==
    {<<Plain(h), Plain("begin")>> \o b \o <<Plain("end process;")>> :
         h \in ProcessHeads,
         b \in UNION {[1..n -> {Plain(t) : t \in Statements}] : n \in 1..MaxStatements}}

InitDet ==
    /\ InitSink({1}, {<<>>}, {""})
    /\ InitRun(SignalNames)
    /\ \E body \in ProcessBodies :
           /\ files = <<File("t.vhd", NoCfg, body)>>
           /\ lines = FileOf(body)
    /\ fileix = 1
    /\ error_suppressions = {}
    /\ error_suppressions_region = {}
    /\ all_identifiers = DeclaredSignals
    /\ InitTyped(all_identifiers)
    /\ locals = NoLocals
    /\ local_identifiers = <<>>
    /\ pc = "check_process"
    /\ linenum = 1
    /\ clean_lines = NoCleansedLines
    /\ pending = <<>>
    /\ exception = ""

NextDet == CheckProcessesStep \/ Error \/ NextRun

SpecDet == InitDet /\ [][NextDet]_vars

-----------------------------------------------------------------------------
(* The architecture body loop on bodies of one or more processes, each     *)
(* taken from a list of processes of the kinds CheckProcess tells apart.   *)

MaxProcesses == 2   \* most processes of the architecture body

ProcessTexts ==
    {<<"process(SA)", "begin", "sy <= sa and sb;", "end process;">>,
     <<"process(sa, sb)", "begin", "sb <= sa;", "end process;">>,
     <<"process(all)", "begin", "sy <= sa and sb;", "sy <= sb;", "end process;">>,
     <<"process(sa)", "begin", "sa <= sy and sa;", "sy <= sa;", "end process;">>,
     <<"process", "begin", "sy <= sy and sa;", "end process;">>,
     <<"process(clk, sb)", "begin", "if rising_edge(clk) then", "sy <= sy and sa;",
       "end if;", "end process;">>,
     <<"process(sa, sy, clk)", "begin", "sy <= sy and sa;", "case sa is", "sy <= sb;",
       "end process;">>}

RECURSIVE Flatten(_)
Flatten(q) == IF q = <<>> THEN <<>> ELSE Head(q) \o Flatten(Tail(q))

PlainLines(texts) == [k \in 1..Len(texts) |-> Plain(texts[k])]

ArchitectureBodies ==
    {PlainLines(Flatten(q)) : q \in UNION {[1..n -> ProcessTexts] : n \in 1..MaxProcesses}}

InitProcess ==
    /\ InitSink({1}, {<<>>}, {""})
    /\ InitRun(SignalNames)
    /\ \E body \in ArchitectureBodies :
           /\ files = <<File("t.vhd", NoCfg, body)>>
           /\ lines = FileOf(body)
    /\ fileix = 1
    /\ error_suppressions = {}
    /\ error_suppressions_region = {}
    /\ all_identifiers = DeclaredSignals
    /\ InitTyped(all_identifiers)
    /\ locals = NoLocals
    /\ local_identifiers = <<>>
    /\ pc = "check_process"
    /\ linenum = 1
    /\ clean_lines = NoCleansedLines
    /\ pending = <<>>
    /\ exception = ""

NextProcess == CheckProcessesStep \/ Error

SpecProcess == InitProcess /\ [][NextProcess]_vars

(* Processes of the three classes, with and without sensitivity list and   *)
(* with and without a clock edge in the body.                              *)
ClassTexts ==
    {<<"process", "begin", "if rising_edge(sa) then", "sy <= sb;", "end if;",
       "end process;">>,
     <<"process(sb)", "begin", "if rising_edge(clk) then", "sy <= sb;", "end if;",
       "end process;">>,
     <<"process(sa, sb, sy)", "begin", "if falling_edge(sa) then", "sy <= sb;", "end if;",
       "end process;">>,
     <<"process(sa)", "begin", "sy <= sy and sb;", "end process;">>,
     <<"process", "begin", "sy <= sy and sa;", "end process;">>,
     <<"process(clk)", "begin", "if rising_edge(clk) then", "sy <= sy and sa;", "end if;",
       "end process;">>}

ClassBodies ==
    {PlainLines(Flatten(q)) : q \in UNION {[1..n -> ClassTexts] : n \in 1..MaxProcesses}}

InitClass ==
    /\ InitSink({1}, {<<>>}, {""})
    /\ InitRun(SignalNames)
    /\ \E body \in ClassBodies :
           /\ files = <<File("t.vhd", NoCfg, body)>>
           /\ lines = FileOf(body)
    /\ fileix = 1
    /\ error_suppressions = {}
    /\ error_suppressions_region = {}
    /\ all_identifiers = DeclaredSignals
    /\ InitTyped(all_identifiers)
    /\ locals = NoLocals
    /\ local_identifiers = <<>>
    /\ pc = "check_process"
    /\ linenum = 1
    /\ clean_lines = NoCleansedLines
    /\ pending = <<>>
    /\ exception = ""

SpecClass == InitClass /\ [][NextProcess]_vars

-----------------------------------------------------------------------------
(* The construction of the CleansedLines object, on lines made of the      *)
(* pieces that the cleanser looks at.                                      *)

MaxTokens == 4      \* most pieces of a line

CleanseTokens == {"a", " ", "-", "/*", "*/", "\""}

RECURSIVE Concat(_)
Concat(q) == IF q = <<>> THEN "" ELSE Head(q) \o Concat(Tail(q))

CleanseTexts == {Concat(q) : q \in UNION {[1..n -> CleanseTokens] : n \in 1..MaxTokens}}

(* clean_lines = CleansedLines(lines) *)
CleansedLinesStep ==
    /\ Running /\ pc = "cleanse"
    /\ clean_lines' = CleansedLines(lines)
    /\ Goto("cleansed")
    /\ UNCHANGED <<sinkVars, globalVars, tableVars, locals, mainVars, runVars, error_suppressions,
                   error_suppressions_region, all_identifiers,
                   local_identifiers, lines, linenum, pending,
                   exception>>

InitCleanse ==
    /\ InitSink({1}, {<<>>}, {""})
    /\ InitRun({})
    /\ \E t \in CleanseTexts :
           /\ files = <<File("t.vhd", NoCfg, <<Plain(t)>>)>>
           /\ lines = FileOf(<<Plain(t)>>)
    /\ fileix = 1
    /\ error_suppressions = {}
    /\ error_suppressions_region = {}
    /\ all_identifiers = <<>>
    /\ InitTyped(all_identifiers)
    /\ locals = NoLocals
    /\ local_identifiers = <<>>
    /\ clean_lines = NoCleansedLines
    /\ pc = "cleanse"
    /\ linenum = 0
    /\ pending = <<>>
    /\ exception = ""

NextCleanse == CleansedLinesStep

SpecCleanse == InitCleanse /\ [][NextCleanse]_vars

(* The same on lines made of string quotes, `--' and code. *)
MaxPieces == 5      \* most pieces of a line with strings and comments

CommentTokens == {"a", " ", "--", "\""}

CommentTexts == {Concat(q) : q \in UNION {[1..n -> CommentTokens] : n \in 1..MaxPieces}}

InitComment ==
    /\ InitSink({1}, {<<>>}, {""})
    /\ InitRun({})
    /\ \E t \in CommentTexts :
           /\ files = <<File("t.vhd", NoCfg, <<Plain(t)>>)>>
           /\ lines = FileOf(<<Plain(t)>>)
    /\ fileix = 1
    /\ error_suppressions = {}
    /\ error_suppressions_region = {}
    /\ all_identifiers = <<>>
    /\ InitTyped(all_identifiers)
    /\ locals = NoLocals
    /\ local_identifiers = <<>>
    /\ clean_lines = NoCleansedLines
    /\ pc = "cleanse"
    /\ linenum = 0
    /\ pending = <<>>
    /\ exception = ""

SpecComment == InitComment /\ [][NextCleanse]_vars

-----------------------------------------------------------------------------
(* Whole runs over files of design units: an entity with a port, an entity *)
(* named in upper case, an entity with a statement, architectures with     *)
(* declarations, a concurrent assignment and a process, and a package with *)
(* a constant.                                                             *)

MaxUnits == 2

UnitTexts ==
    {<<"entity t is", "port (a : in std_logic);", "end entity;">>,
     <<"entity T is", "end entity;">>,
     <<"entity t is", "port (a : in std_logic);", "begin", "assert a = '1';",
       "end entity;">>,
     <<"architecture rtl of t is", "signal sa : std_logic;", "signal sb : std_logic;",
       "constant C_FOO : integer := 3;", "begin", "sb <= a;", "end architecture;">>,
     <<"architecture rtl of t is", "signal sy : std_logic;", "begin", "process(sa)",
       "begin", "sy <= sa;", "end process;", "end architecture;">>,
     <<"package p is", "constant C_BAR : integer := 3;", "end package;">>,
     <<"entity t is", "port (a : inout std_logic);", "end entity;">>,
     <<"architecture rtl of t is", "begin", "process(sa)", "begin", "a <= sa;",
       "end process;", "end architecture;">>}

UnitBodies ==
    {PlainLines(Flatten(q)) : q \in UNION {[1..n -> UnitTexts] : n \in 1..MaxUnits}}

UnitFilenames == {"t.vhd", "T.vhd"}

InitUnit ==
    /\ InitSink({1}, {<<>>}, {""})
    /\ InitRun({"a", "sa", "sy"})
    /\ \E name \in UnitFilenames, body \in UnitBodies :
           /\ files = <<File(name, NoCfg, body)>>
           /\ lines = FileOf(body)
    /\ fileix = 1
    /\ error_suppressions = {}
    /\ error_suppressions_region = {}
    /\ all_identifiers = <<>>
    /\ InitTyped(all_identifiers)
    /\ locals = NoLocals
    /\ local_identifiers = <<>>
    /\ pc = "reset"
    /\ linenum = 0
    /\ clean_lines = NoCleansedLines
    /\ pending = <<>>
    /\ exception = ""

SpecUnit == InitUnit /\ [][Next]_vars

-----------------------------------------------------------------------------
(* Runs from the command line on: ParseArguments hands the value of        *)
(* --filter to SetFilters, then main processes the one file, whose         *)
(* VHDLLINT.cfg may add filters.                                           *)

FilterArguments ==
    { <<>>, <<"-whitespace/tab">>, <<"whitespace/tab">>, <<"+whitespace/tab">>,
      <<"-whitespace", "whitespace/tab">>, <<"runtime">> }

ArgsCfgChoices == { NoCfg, [NoCfg EXCEPT !.filters = <<"whitespace/tab">>] }

ArgsBodies == { <<Plain("\tx <= y;")>>, <<Plain("y <= a when s;")>> }

(* _lint_state.SetFilters(filters) *)
SetFiltersStep ==
    /\ Running /\ pc = "set_filters"
    /\ \E arg \in FilterArguments : filters' = AddFilters(DEFAULT_FILTERS, arg)
    /\ IF ~FiltersValid(filters')
       THEN exception' = "ValueError" /\ UNCHANGED pc
       ELSE UNCHANGED exception /\ Goto("begin")
    /\ UNCHANGED <<verbose_level, counting, error_count, errors_by_category, stderr,
                   globalVars, tableVars, locals, mainVars, runVars, error_suppressions,
                   error_suppressions_region, all_identifiers, local_identifiers, lines,
                   clean_lines, linenum, pending>>

InitArgs ==
    /\ InitSink({1}, {<<>>}, {""})
    /\ InitRun({})
    /\ \E cfg \in ArgsCfgChoices, body \in ArgsBodies : files = <<File("t.vhd", cfg, body)>>
    /\ fileix = 1
    /\ lines = <<>>
    /\ error_suppressions = {}
    /\ error_suppressions_region = {}
    /\ all_identifiers = <<>>
    /\ InitTyped(all_identifiers)
    /\ locals = NoLocals
    /\ local_identifiers = <<>>
    /\ pc = "set_filters"
    /\ linenum = 0
    /\ clean_lines = NoCleansedLines
    /\ pending = <<>>
    /\ exception = ""

NextArgs == SetFiltersStep \/ NextFiles

SpecArgs == InitArgs /\ [][NextArgs]_vars

-----------------------------------------------------------------------------
(* The drivers of one identifier: the places that drive it add drivers of  *)
(* the three classes in any order, then a process line that assigns it     *)
(* asks HasMultipleDrivers.                                                *)

MaxDrivers == 3      \* most drivers of the identifier
MaxDriverLine == 2   \* the lines and scopes of the drivers are 1..MaxDriverLine

DriverLines == 1..MaxDriverLine

DriverChoices ==
    {Driver(NoScope, l) : l \in DriverLines}
        \cup {PossibleDriver(NoScope, l) : l \in DriverLines}
        \cup {ProcessDriver(sc, l) : sc \in DriverLines, l \in DriverLines}

DrivenLine == "v <= sa;"

(* idt.AddDriver(d) *)
AddDriverStep ==
    /\ Running /\ pc = "drivers"
    /\ Len(GetDrivers(all_identifiers, "v")) < MaxDrivers
    /\ \E d \in DriverChoices :
           /\ all_identifiers' = AddDriver(all_identifiers, "v", d)
           /\ TypedIdentifiers(AddDriver(all_identifiers, "v", d))
    /\ UNCHANGED <<sinkVars, globalVars, locals, mainVars, runVars, error_suppressions,
                   error_suppressions_region, local_identifiers, lines, clean_lines, pc,
                   linenum, pending, exception>>

(* The `for w in write_vars' of CheckProcess that reports the drivers. *)
HasMultipleDriversStep ==
    /\ Running /\ pc = "drivers"
    /\ pending' = MultipleDrivers(linenum, DrivenLine, <<"v">>, all_identifiers)
    /\ Goto("drivers_checked")
    /\ UNCHANGED <<sinkVars, globalVars, tableVars, locals, mainVars, runVars, error_suppressions,
                   error_suppressions_region, all_identifiers, local_identifiers, lines,
                   clean_lines, linenum, exception>>

InitDrivers ==
    /\ InitSink({1}, {<<>>}, {""})
    /\ InitRun({})
    /\ files = <<File("t.vhd", NoCfg, <<Plain(DrivenLine)>>)>>
    /\ lines = FileOf(<<Plain(DrivenLine)>>)
    /\ fileix = 1
    /\ error_suppressions = {}
    /\ error_suppressions_region = {}
    /\ all_identifiers = <<Identifier("v", "Signal", OnlyLine(1))>>
    /\ InitTyped(all_identifiers)
    /\ locals = NoLocals
    /\ local_identifiers = <<>>
    /\ pc = "drivers"
    /\ linenum = 1
    /\ clean_lines = NoCleansedLines
    /\ pending = <<>>
    /\ exception = ""

NextDrivers == AddDriverStep \/ HasMultipleDriversStep \/ Error

SpecDrivers == InitDrivers /\ [][NextDrivers]_vars

-----------------------------------------------------------------------------
(* CloseExpression on its own: two lines of brackets, angle brackets and   *)
(* semicolons, and a call for every position of each of them.              *)

MaxFirstBrackets == 3    \* most characters of the first line
MaxNextBrackets == 1     \* most characters of the second line

BracketTokens == {"(", ")", "[", "]", "<", ">", ";"}

BracketTexts(n) == {Concat(q) : q \in UNION {[1..k -> BracketTokens] : k \in 0..n}}

BracketBodies ==
    {<<Plain(a), Plain(b)>> : a \in BracketTexts(MaxFirstBrackets),
                              b \in BracketTexts(MaxNextBrackets)}

(* CloseExpression(clean_lines, linenum, pos) *)
CloseExpressionStep ==
    /\ Running /\ pc = "close"
    /\ \E pos \in 0..(Len(Elided(lines, linenum)) - 1) :
           locals' = [fn |-> "CloseExpression", pos |-> pos,
                      result |-> CloseExpression(lines, linenum, pos)]
    /\ Goto("closed")
    /\ UNCHANGED <<sinkVars, globalVars, tableVars, mainVars, runVars, error_suppressions,
                   error_suppressions_region, all_identifiers, local_identifiers, lines,
                   clean_lines, linenum, pending, exception>>

InitBracket ==
    /\ InitSink({1}, {<<>>}, {""})
    /\ InitRun({})
    /\ \E body \in BracketBodies :
           /\ files = <<File("t.vhd", NoCfg, body)>>
           /\ lines = FileOf(body)
    /\ fileix = 1
    /\ error_suppressions = {}
    /\ error_suppressions_region = {}
    /\ all_identifiers = <<>>
    /\ InitTyped(all_identifiers)
    /\ locals = NoLocals
    /\ local_identifiers = <<>>
    /\ pc = "close"
    /\ linenum \in {1, 2}
    /\ clean_lines = CleansedLines(lines)
    /\ pending = <<>>
    /\ exception = ""

NextBracket == CloseExpressionStep

SpecBracket == InitBracket /\ [][NextBracket]_vars

-----------------------------------------------------------------------------
(* Port maps: CheckPortMaps on the first line of a file whose signals are  *)
(* declared, and CheckPortMap, whose loop over the items of the map is     *)
(* taken round by round.                                                   *)

(* Match of  \s*((.*?)\s*:)?\s*\bport map : group 2, the label; the port  *)
(* maps of the model are labelled u or not at all.                         *)
IsPortMap(text) ==
    StartsWith(LStrip(text), "u : port map") \/ StartsWith(LStrip(text), "port map")

PortMapLabel(text) == IF StartsWith(LStrip(text), "u : port map") THEN "u" ELSE None

(* Match of  .*\);  on the lines from line_num on: the first of them. *)
PortMapEnds(ls, line_num) ==
    {l \in line_num..(NumLines(ls) - 1) : Find(CleansedLine(ls, l), ");") >= 0}

(* Search of  \bport\s+map\s*\(  on the lines start_line..end_line - 1,   *)
(* written `port map (' in the model.                                      *)
PortMapOpens(ls, start_line, end_line) ==
    {l \in start_line..(end_line - 1) : FindWord(CleansedLine(ls, l), "port map") >= 0
                                            /\ Find(CleansedLine(ls, l), "port map (") >= 0}

(* "".join(string.split()) *)
RECURSIVE RemoveWhitespace(_)
RemoveWhitespace(s) ==
    IF Len(s) <= 1 THEN (IF IsSpace(s) THEN "" ELSE s)
    ELSE RemoveWhitespace(SubSeq(s, 1, Len(s) \div 2))
             \o RemoveWhitespace(SubSeq(s, Len(s) \div 2 + 1, Len(s)))

(* The comma at k is one that  ,(?![^\(]*[\)])  matches: behind it stands   *)
(* no `)' that comes before every `('.                                     *)
IsSeparator(s, k) ==
    /\ CharAt(s, k) = ","
    /\ LET close == Find(SliceFrom(s, k + 1), ")")
           open == Find(SliceFrom(s, k + 1), "(")
       IN  ~(close >= 0 /\ (open < 0 \/ close < open))

(* re.split(r',(?![^\(]*[\)])', s) *)
RECURSIVE SplitItems(_)
SplitItems(s) ==
    LET seps == {k \in 0..(Len(s) - 1) : IsSeparator(s, k)}
    IN  IF seps = {} THEN <<s>>
        ELSE <<Slice(s, 0, Least(seps))>> \o SplitItems(SliceFrom(s, Least(seps) + 1))

(* map_list[i].count('(') != map_list[i].count(')') *)
Unbalanced(item) == Count(item, "(") # Count(item, ")")

(* map_list[i:i+2] = [''.join(map_list[i:i+2])], i counted from 0 *)
MergeItems(map_list, i) ==
    SubSeq(map_list, 1, i)
        \o <<Concat(SubSeq(map_list, i + 1, Min(i + 2, Len(map_list))))>>
        \o SubSeq(map_list, i + 3, Len(map_list))

(* CheckPortMap up to its `while' loop: the label is declared, and the     *)
(* first line that opens the map gives map_list.                           *)
CheckPortMapHead(ls, start_line, end_line, name, ids) ==
    LET lineref == FromString(start_line, CleansedLine(ls, start_line), name)
        opens == PortMapOpens(ls, start_line, end_line)
    IN  [errs |-> IF name # None /\ ~islower(name)
                  THEN <<Diag(lineref, "readability/identifiers", 1,
                              "Invalid capitalization on '" \o name
                                  \o "'. Non-constant identifiers should use all lower case.")>>
                  ELSE <<>>,
         ids |-> IF name # None
                 THEN AddIdentifier(ids, Identifier(name, "Identifier", lineref))
                 ELSE ids,
         found |-> opens # {},
         l |-> IF opens = {} THEN 0 ELSE Least(opens),
         map_list |->
             IF opens = {} THEN <<>>
             ELSE SplitItems(RemoveWhitespace(
                      ExtractExpression(ls, Least(opens),
                          Find(CleansedLine(ls, Least(opens)), "port map (") + 9).string))]

(* CheckPortMaps, and CheckPortMap as far as its `while' loop. *)
CheckPortMapsStep ==
    /\ Running /\ pc = "port_maps"
    /\ IF ~IsPortMap(CleansedLine(lines, linenum)) \/ PortMapEnds(lines, linenum) = {}
       THEN /\ Goto("port_maps_checked")
            /\ UNCHANGED <<all_identifiers, tableVars, locals, pending>>
       ELSE \E h \in {CheckPortMapHead(lines, linenum, Least(PortMapEnds(lines, linenum)),
                                        PortMapLabel(CleansedLine(lines, linenum)),
                                        all_identifiers)} :
                /\ pending' = h.errs
                /\ all_identifiers' = h.ids
                /\ TypedIdentifiers(h.ids)
                /\ IF h.found
                   THEN /\ locals' = [fn |-> "CheckPortMap", l |-> h.l,
                                      map_list |-> h.map_list, i |-> 0]
                        /\ Goto("merge")
                   ELSE UNCHANGED locals /\ Goto("port_maps_checked")
    /\ UNCHANGED <<sinkVars, globalVars, mainVars, runVars, error_suppressions,
                   error_suppressions_region, local_identifiers, lines, clean_lines,
                   linenum, exception>>

(* One round of `while i < len(map_list)'. *)
MergeStep ==
    /\ Running /\ pc = "merge"
    /\ locals.i < Len(locals.map_list)
    /\ locals' = IF Unbalanced(locals.map_list[locals.i + 1])
                 THEN [locals EXCEPT !.map_list = MergeItems(locals.map_list, locals.i)]
                 ELSE [locals EXCEPT !.i = locals.i + 1]
    /\ UNCHANGED <<sinkVars, globalVars, tableVars, mainVars, runVars, error_suppressions,
                   error_suppressions_region, all_identifiers, local_identifiers, lines,
                   clean_lines, pc, linenum, pending, exception>>

(* The part of a mapping that names the actual: items[1] of               *)
(* mapping.split("=>", 1), items[0] of a positional one.                   *)
IsNamed(mapping) == Find(mapping, "=>") >= 0

Actual(mapping) ==
    IF IsNamed(mapping) THEN SliceFrom(mapping, Find(mapping, "=>") + 2) ELSE mapping

(* `for mapping in map_list': r is [errs, ids]. *)
RECURSIVE CheckMappings(_, _, _)
CheckMappings(map_list, l, r) ==
    IF map_list = <<>> THEN r
    ELSE LET positional ==
                 IF IsNamed(Head(map_list)) THEN <<>>
                 ELSE <<Diag(OnlyLine(l), "readability/portmaps", 4,
                             "Positional port mapping not allowed. Use named mapping.")>>
             c == CheckIdentifiersString(Actual(Head(map_list)), l,
                      [errs |-> r.errs \o positional, ids |-> r.ids])
         IN  CheckMappings(Tail(map_list), l,
                 [errs |-> c.errs,
                  ids |-> IF IsIdentifierWithType(c.ids, Actual(Head(map_list)))
                          THEN AddDriver(c.ids, Actual(Head(map_list)),
                                         PossibleDriver(NoScope, l))
                          ELSE c.ids])

(* The test of the `while' loop fails. *)
MergedStep ==
    /\ Running /\ pc = "merge"
    /\ locals.i >= Len(locals.map_list)
    /\ Goto("mappings")
    /\ UNCHANGED <<sinkVars, globalVars, tableVars, locals, mainVars, runVars,
                   error_suppressions, error_suppressions_region, all_identifiers,
                   local_identifiers, lines, clean_lines, linenum, pending, exception>>

(* The `for mapping in map_list' behind the loop. *)
MappingsStep ==
    /\ Running /\ pc = "mappings"
    /\ \E r \in {CheckMappings(locals.map_list, locals.l,
                                [errs |-> <<>>, ids |-> all_identifiers])} :
           /\ pending' = r.errs
           /\ all_identifiers' = r.ids
           /\ TypedIdentifiers(r.ids)
    /\ locals' = NoLocals
    /\ Goto("port_maps_checked")
    /\ UNCHANGED <<sinkVars, globalVars, mainVars, runVars, error_suppressions,
                   error_suppressions_region, local_identifiers, lines, clean_lines,
                   linenum, exception>>

PortMapFirst ==
    {"(a => sa,", "(sa,", "(a => f(sa, sy),", "(a => \"(\",", "(a => f(sa,", "(a => sy(1),"}

PortMapNext == {"b => sy", "sy", "b => sy(1)", "b => g(sa)"}

PortMapHeads == {"u : port map ", "port map "}

PortMapBodies ==
    {<<Plain(h \o a), Plain(b), Plain(");")>> :
        h \in PortMapHeads, a \in PortMapFirst, b \in PortMapNext}

InitPortMap ==
    /\ InitSink({1}, {<<>>}, {""})
    /\ InitRun({})
    /\ \E body \in PortMapBodies :
           /\ files = <<File("t.vhd", NoCfg, body)>>
           /\ lines = FileOf(body)
    /\ fileix = 1
    /\ error_suppressions = {}
    /\ error_suppressions_region = {}
    /\ all_identifiers = DeclaredSignals
    /\ InitTyped(all_identifiers)
    /\ locals = NoLocals
    /\ local_identifiers = <<>>
    /\ pc = "port_maps"
    /\ linenum = 1
    /\ clean_lines = CleansedLines(lines)
    /\ pending = <<>>
    /\ exception = ""

NextPortMap == CheckPortMapsStep \/ MergeStep \/ MergedStep \/ MappingsStep \/ Error

(* The interpreter goes on with the loop as long as there is a round or    *)
(* the exit of the loop to execute, and with the calls of Error.           *)
SpecPortMap ==
    /\ InitPortMap /\ [][NextPortMap]_vars
    /\ WF_vars(MergeStep) /\ WF_vars(MergedStep) /\ WF_vars(Error)

-----------------------------------------------------------------------------
(* The symbol table on its own: the lines of a file declare identifiers,   *)
(* global and local ones, or name one, and local scopes are opened and     *)
(* closed between them, in any order; a lookup ends the run.               *)

MaxTableLines == 3      \* the declarations and references are on the lines 1..MaxTableLines
MaxScopes == 2          \* most local scopes open at a time

SymbolNames == {"a", "b"}

(* Python's None where an identifier is returned. *)
NoIdentifier == [key |-> None]

Capitalization(name, lineref) ==
    IF ~islower(name)
    THEN <<Diag(lineref, "readability/identifiers", 1,
                "Invalid capitalization on '" \o name
                    \o "'. Non-constant identifiers should use all lower case.")>>
    ELSE <<>>

HasKey(dict, name) == \E k \in 1..Len(dict) : dict[k].key = Lower(name)

Entry(dict, name) == CHOOSE i \in Range(dict) : i.key = Lower(name)

(* The scopes that hold the name, outermost first: `for scope in           *)
(* _local_identifiers: if name.lower() in scope'.                          *)
ScopesWith(scopes, name) == {k \in 1..Len(scopes) : HasKey(scopes[k], name)}

IsVariableIdentifier(scopes, name) ==
    /\ ScopesWith(scopes, name) # {}
    /\ Entry(scopes[Least(ScopesWith(scopes, name))], name).kind # "LocalConstant"

GetVariableIdentifier(scopes, name) ==
    IF ScopesWith(scopes, name) = {} THEN NoIdentifier
    ELSE Entry(scopes[Least(ScopesWith(scopes, name))], name)

GetIdentifierWithType(scopes, signals, constants, name) ==
    IF IsVariableIdentifier(scopes, name) THEN GetVariableIdentifier(scopes, name)
    ELSE IF HasKey(signals, name) THEN Entry(signals, name)
    ELSE IF HasKey(constants, name) THEN Entry(constants, name)
    ELSE NoIdentifier

(* The same loop with the name taken out of _all_identifiers whatever      *)
(* object it holds for it.                                                 *)
RECURSIVE RemoveLocalsByName(_, _)
RemoveLocalsByName(scope, r) ==
    IF scope = <<>> THEN r
    ELSE RemoveLocalsByName(Tail(scope),
             [errs |-> r.errs
                          \o (IF ~Head(scope).referenced
                              THEN <<Diag(Head(scope).lineref, "build/unused", 2,
                                          "Unused local identifier '"
                                              \o Head(scope).name \o "'.")>>
                              ELSE <<>>),
              ids |-> SelectSeq(r.ids, LAMBDA x : x.key # Head(scope).key)])

(* The loop of RemoveLocalScope over the locals of the innermost scope: r  *)
(* is [errs, ids], the calls of error and _all_identifiers.                *)
RECURSIVE RemoveLocals(_, _)
RemoveLocals(scope, r) ==
    IF scope = <<>> THEN r
    ELSE RemoveLocals(Tail(scope),
             [errs |-> r.errs
                          \o (IF ~Head(scope).referenced
                              THEN <<Diag(Head(scope).lineref, "build/unused", 2,
                                          "Unused local identifier '"
                                              \o Head(scope).name \o "'.")>>
                              ELSE <<>>),
              ids |-> IF /\ HasKey(r.ids, Head(scope).key)
                         /\ Entry(r.ids, Head(scope).key) = Head(scope)
                      THEN SelectSeq(r.ids, LAMBDA x : x.key # Head(scope).key)
                      ELSE r.ids])

(* The object `i' of one dictionary in the state it has in `ids': the      *)
(* dictionaries hold the same objects, which a name, a class and the place *)
(* of the declaration tell apart.                                          *)
SameObject(x, y) == x.key = y.key /\ x.kind = y.kind /\ x.lineref = y.lineref

Shared(dict, ids) ==
    [k \in 1..Len(dict) |->
        IF \E i \in Range(ids) : SameObject(i, dict[k])
        THEN CHOOSE i \in Range(ids) : SameObject(i, dict[k])
        ELSE dict[k]]

AtTable == Running /\ pc = "table"

OnNextLine == linenum <= MaxTableLines /\ linenum' = linenum + 1

AddSignalIdentifierStep ==
    /\ AtTable /\ OnNextLine
    /\ \E name \in SymbolNames :
           /\ signal_identifiers' =
                  AddIdentifier(signal_identifiers, Identifier(name, "Signal", OnlyLine(linenum)))
           /\ all_identifiers' =
                  AddIdentifier(all_identifiers, Identifier(name, "Signal", OnlyLine(linenum)))
           /\ pending' = Capitalization(name, OnlyLine(linenum))
    /\ UNCHANGED <<sinkVars, globalVars, mainVars, runVars, error_suppressions,
                   error_suppressions_region, constant_identifiers, other_identifiers,
                   local_identifiers, locals, lines, clean_lines, pc, exception>>

AddPortIdentifierStep ==
    /\ AtTable /\ OnNextLine
    /\ \E name \in SymbolNames :
           /\ signal_identifiers' =
                  AddIdentifier(signal_identifiers, Identifier(name, "Port", OnlyLine(linenum)))
           /\ all_identifiers' =
                  AddIdentifier(all_identifiers, Identifier(name, "Port", OnlyLine(linenum)))
           /\ pending' = Capitalization(name, OnlyLine(linenum))
    /\ UNCHANGED <<sinkVars, globalVars, mainVars, runVars, error_suppressions,
                   error_suppressions_region, constant_identifiers, other_identifiers,
                   local_identifiers, locals, lines, clean_lines, pc, exception>>

AddConstantIdentifierStep ==
    /\ AtTable /\ OnNextLine
    /\ \E name \in SymbolNames :
           /\ constant_identifiers' =
                  AddIdentifier(constant_identifiers,
                                Identifier(name, "Constant", OnlyLine(linenum)))
           /\ all_identifiers' =
                  AddIdentifier(all_identifiers, Identifier(name, "Constant", OnlyLine(linenum)))
    /\ UNCHANGED <<sinkVars, globalVars, mainVars, runVars, error_suppressions,
                   error_suppressions_region, signal_identifiers, other_identifiers,
                   local_identifiers, locals, lines, clean_lines, pc, pending, exception>>

AddOtherIdentifierStep ==
    /\ AtTable /\ OnNextLine
    /\ \E name \in SymbolNames :
           /\ other_identifiers' =
                  AddIdentifier(other_identifiers,
                                Identifier(name, "Identifier", OnlyLine(linenum)))
           /\ all_identifiers' =
                  AddIdentifier(all_identifiers, Identifier(name, "Identifier", OnlyLine(linenum)))
           /\ pending' = Capitalization(name, OnlyLine(linenum))
    /\ UNCHANGED <<sinkVars, globalVars, mainVars, runVars, error_suppressions,
                   error_suppressions_region, signal_identifiers, constant_identifiers,
                   local_identifiers, locals, lines, clean_lines, pc, exception>>

(* AddReferencedIdentifier with enforce_caps left at True *)
AddReferencedIdentifierStep ==
    /\ AtTable /\ OnNextLine
    /\ \E name \in SymbolNames :
           /\ other_identifiers' =
                  AddIdentifier(other_identifiers,
                                Identifier(name, "ReferencedIdentifier", OnlyLine(linenum)))
           /\ all_identifiers' =
                  AddIdentifier(all_identifiers,
                                Identifier(name, "ReferencedIdentifier", OnlyLine(linenum)))
           /\ pending' = Capitalization(name, OnlyLine(linenum))
    /\ UNCHANGED <<sinkVars, globalVars, mainVars, runVars, error_suppressions,
                   error_suppressions_region, signal_identifiers, constant_identifiers,
                   local_identifiers, locals, lines, clean_lines, pc, exception>>

AddLocalScopeStep ==
    /\ AtTable
    /\ Len(local_identifiers) < MaxScopes
    /\ local_identifiers' = Append(local_identifiers, <<>>)
    /\ UNCHANGED <<sinkVars, globalVars, tableVars, mainVars, runVars, error_suppressions,
                   error_suppressions_region, all_identifiers, locals, lines, clean_lines,
                   pc, linenum, pending, exception>>

(* AddLocalIdentifier, called with a scope open as all its callers do. *)
AddLocalIdentifierStep ==
    /\ AtTable /\ OnNextLine
    /\ local_identifiers # <<>>
    /\ \E name \in SymbolNames, is_constant \in BOOLEAN :
           \E v \in {Identifier(name, IF is_constant THEN "LocalConstant" ELSE "Variable",
                                OnlyLine(linenum))} :
               /\ pending' = IF is_constant THEN <<>> ELSE Capitalization(name, v.lineref)
               /\ local_identifiers' =
                      [local_identifiers EXCEPT
                          ![Len(local_identifiers)] = AddIdentifier(@, v)]
               /\ all_identifiers' = AddIdentifier(all_identifiers, v)
    /\ UNCHANGED <<sinkVars, globalVars, tableVars, mainVars, runVars, error_suppressions,
                   error_suppressions_region, locals, lines, clean_lines, pc, exception>>

RemoveLocalScopeStep ==
    /\ AtTable
    /\ local_identifiers # <<>>
    /\ \E r \in {RemoveLocals(Top(local_identifiers),
                               [errs |-> <<>>, ids |-> all_identifiers])} :
           /\ pending' = r.errs
           /\ all_identifiers' = r.ids
    /\ local_identifiers' = Pop(local_identifiers)
    /\ UNCHANGED <<sinkVars, globalVars, tableVars, mainVars, runVars, error_suppressions,
                   error_suppressions_region, locals, lines, clean_lines, pc, linenum,
                   exception>>

(* CheckIdentifiersString on a line that is one name: the object that      *)
(* _all_identifiers holds for it counts the reference.                     *)
CheckIdentifiersStringStep ==
    /\ AtTable /\ OnNextLine
    /\ \E w \in SymbolNames :
           \E r \in {CheckIdentifiersString(w, linenum,
                                            [errs |-> <<>>, ids |-> all_identifiers])} :
               /\ pending' = r.errs
               /\ all_identifiers' = r.ids
               /\ signal_identifiers' = Shared(signal_identifiers, r.ids)
               /\ constant_identifiers' = Shared(constant_identifiers, r.ids)
               /\ other_identifiers' = Shared(other_identifiers, r.ids)
               /\ local_identifiers' =
                      [k \in 1..Len(local_identifiers) |-> Shared(local_identifiers[k], r.ids)]
    /\ UNCHANGED <<sinkVars, globalVars, mainVars, runVars, error_suppressions,
                   error_suppressions_region, locals, lines, clean_lines, pc, exception>>

(* IsVariableIdentifier, GetVariableIdentifier and GetIdentifierWithType   *)
(* on a name.                                                              *)
LookupStep ==
    /\ AtTable
    /\ \E name \in SymbolNames :
           locals' = [fn |-> "GetIdentifierWithType", name |-> name,
                      is_variable |-> IsVariableIdentifier(local_identifiers, name),
                      variable |-> GetVariableIdentifier(local_identifiers, name),
                      with_type |-> GetIdentifierWithType(local_identifiers,
                                        signal_identifiers, constant_identifiers, name)]
    /\ Goto("looked_up")
    /\ UNCHANGED <<sinkVars, globalVars, tableVars, mainVars, runVars, error_suppressions,
                   error_suppressions_region, all_identifiers, local_identifiers, lines,
                   clean_lines, linenum, pending, exception>>

(* ResetFileData has run. *)
InitSymbols ==
    /\ InitSink({1}, {<<>>}, {""})
    /\ InitRun({})
    /\ files = <<File("t.vhd", NoCfg, <<>>)>>
    /\ lines = FileOf(<<>>)
    /\ fileix = 1
    /\ error_suppressions = {}
    /\ error_suppressions_region = {}
    /\ all_identifiers = <<>>
    /\ InitTyped(all_identifiers)
    /\ locals = NoLocals
    /\ local_identifiers = <<>>
    /\ pc = "table"
    /\ linenum = 1
    /\ clean_lines = NoCleansedLines
    /\ pending = <<>>
    /\ exception = ""

NextSymbols ==
    \/ AddSignalIdentifierStep \/ AddPortIdentifierStep \/ AddConstantIdentifierStep
    \/ AddOtherIdentifierStep \/ AddReferencedIdentifierStep
    \/ AddLocalScopeStep \/ AddLocalIdentifierStep \/ RemoveLocalScopeStep
    \/ CheckIdentifiersStringStep \/ LookupStep \/ Error

SpecSymbols == InitSymbols /\ [][NextSymbols]_vars

-----------------------------------------------------------------------------
(* Properties of the NOLINT directives. *)

FileLines == 1..(Len(lines) - 2)

Names(l, category) == l.arg = "(" \o category \o ")"

NamesAll(l) == l.arg \in {"", "(*)"}

(* Line n is the target of a NOLINT or NOLINTNEXTLINE directive for category. *)
Targeted(n, category) ==
    \/ /\ n \in FileLines
       /\ At(lines, n).dir = "NOLINT"
       /\ Names(At(lines, n), category) \/ NamesAll(At(lines, n))
    \/ /\ n - 1 \in FileLines
       /\ At(lines, n - 1).dir = "NOLINTNEXTLINE"
       /\ Names(At(lines, n - 1), category) \/ NamesAll(At(lines, n - 1))

Emitted(n, category) ==
    {i \in 1..Len(stderr) : stderr[i].lineref.line = n /\ stderr[i].category = category}

(* C3: NOLINT(cat) on line L suppresses the diagnostics of category cat    *)
(* reported at line L and nothing else, NOLINTNEXTLINE(cat) on line L does *)
(* so for line L+1 and not for line L, and a bare directive or a star one  *)
(* covers every category of its target line: no diagnostic is emitted for  *)
(* a targeted line and category, and only targeted pairs are suppressed.   *)
C3_Stated ==
    /\ \A i \in 1..Len(stderr) : ~Targeted(stderr[i].lineref.line, stderr[i].category)
    /\ \A s \in error_suppressions :
           \/ Targeted(s[2], s[1])
           \/ s[1] = None /\ \E c \in ERROR_CATEGORIES : Targeted(s[2], c)

UnknownCategory(l) ==
    /\ l.dir # ""
    /\ ~NamesAll(l)
    /\ \A category \in ERROR_CATEGORIES : ~Names(l, category)

C5_Step ==
    [][(pc = "nolint" /\ pending = <<>> /\ exception = ""
            /\ UnknownCategory(At(lines, linenum))) =>
          /\ Len(pending') = 1
          /\ pending'[1].category = "readability/nolint"
          /\ pending'[1].confidence = 5
          /\ pending'[1].lineref.line = linenum
          /\ error_suppressions' = error_suppressions
          /\ error_suppressions_region' = error_suppressions_region
          /\ exception' = "" /\ pc' = "nolint_region"]_vars

C5_Final ==
    (exception = "") /\
    (pc = "done" /\ pending = <<>> =>
        \A n \in FileLines :
            Cardinality(Emitted(n, "readability/nolint")) =
                IF UnknownCategory(At(lines, n)) /\ ~Targeted(n, "readability/nolint")
                THEN 1 ELSE 0)

(* C5: a NOLINT-family directive naming an unknown category reports exactly *)
(* one readability/nolint diagnostic for its line (emitted unless a NOLINT  *)
(* directive covers that line), raises nothing, lets the pass continue and  *)
(* records no suppression.                                                  *)
C5_UnknownCategory == C5_Step /\ []C5_Final

(* A finished run that emitted readability/nolint and suppressed nothing. *)
C5_Witness ==
    /\ pc = "done" /\ pending = <<>>
    /\ \E n \in FileLines : Emitted(n, "readability/nolint") # {}
    /\ error_suppressions = {}

RegionOf(B, E, category) ==
    /\ B \in FileLines /\ E \in FileLines /\ E > B
    /\ At(lines, B).dir = "NOLINTBEGIN" /\ Names(At(lines, B), category)
    /\ At(lines, E).dir = "NOLINTEND" /\ Names(At(lines, E), category)
    /\ \A m \in (B + 1)..(E - 1) :
           ~(At(lines, m).dir = "NOLINTEND" /\ Names(At(lines, m), category))

(* Line n is covered for category by a directive on n, by NOLINTNEXTLINE   *)
(* on n-1, or by a region that starts at another line than B.              *)
CoveredOtherwise(n, category, B) ==
    \/ At(lines, n).dir # "" /\ (Names(At(lines, n), category))
    \/ Targeted(n, category)
    \/ \E B2 \in FileLines \ {B} :
           /\ B2 <= n
           /\ At(lines, B2).dir = "NOLINTBEGIN" /\ Names(At(lines, B2), category)
           /\ \A m \in (B2 + 1)..(n - 1) :
                  ~(At(lines, m).dir = "NOLINTEND" /\ Names(At(lines, m), category))

(* C4: with NOLINTBEGIN(cat) on line B and the next NOLINTEND(cat) on line *)
(* E > B, cat a known category, no diagnostic of category cat is emitted   *)
(* for a line of B..E, and the region suppresses nothing before B or after *)
(* E.                                                                      *)
C4_Stated ==
    \A B \in FileLines, E \in FileLines :
        LET category == Slice(At(lines, B).arg, 1, -1)
        IN  (category \in ERROR_CATEGORIES /\ RegionOf(B, E, category)) =>
                /\ \A n \in B..E : Emitted(n, category) = {}
                /\ pc = "done" =>
                       \A n \in FileLines \ (B..E) :
                           <<category, n>> \in error_suppressions =>
                               CoveredOtherwise(n, category, B)

-----------------------------------------------------------------------------
(* Properties of a whole run over one file. *)

Finished == pc = "done" /\ pending = <<>> /\ exception = ""

(* Line n opens a port list whose bracket CloseExpression cannot close. *)
UnclosedPort(n) ==
    /\ PortOpen(CleansedLine(lines, n)) >= 0
    /\ CloseExpression(lines, n, PortOpen(CleansedLine(lines, n))).pos = -1

(* The diagnostics CheckEntity gives for every entity, closed or not. *)
EntityCategories == {"whitespace/blank_line", "build/filename"}

(* C6: an opening bracket of a port list without a matching close raises   *)
(* no exception, the run goes on to the end-of-file checks, and a          *)
(* diagnostic reports the bracket's line.                                  *)
C6_Stated ==
    /\ exception = "" /\ pc # "raise"
    /\ Finished =>
           \A n \in FileLines :
               UnclosedPort(n) =>
                   \E i \in 1..Len(stderr) :
                       /\ stderr[i].lineref.line = n
                       /\ stderr[i].category \notin EntityCategories

(* C7 as stated: no diagnostic is emitted for a smaller line than the line *)
(* of a diagnostic emitted before it.                                      *)
C7_Stated ==
    \A i, j \in 1..Len(stderr) :
        i < j => stderr[i].lineref.line <= stderr[j].lineref.line

(* The categories with one place of emission, a pass of ProcessFileData or *)
(* a rule that ProcessLine applies to the line it is given.                *)
PassCategories ==
    {"readability/header", "legal/copyright", "readability/multiline_comment",
     "readability/nolint", "whitespace/tab", "whitespace/line_length", "runtime/latches",
     "whitespace/ending_newline"}

(* The pass of ProcessFileData that emits the category: CheckForHeader,    *)
(* CheckForCopyright, RemoveMultiLineComments, ParseNolintSuppressions,    *)
(* ProcessLine, CheckForNewlineAtEOF.                                      *)
PassOf(category) ==
    CASE category = "readability/header" -> 1
      [] category = "legal/copyright" -> 2
      [] category = "readability/multiline_comment" -> 3
      [] category = "readability/nolint" -> 4
      [] category \in {"whitespace/tab", "whitespace/line_length", "runtime/latches"} -> 5
      [] category = "whitespace/ending_newline" -> 6

(* C7, amended: the diagnostics of a file come pass by pass, in the order  *)
(* in which ProcessFileData runs its passes, and not in one ascending      *)
(* sweep: among the diagnostics of the categories above an earlier one is  *)
(* never of a later pass, and inside one pass no diagnostic names a        *)
(* smaller line than one emitted before it.                                *)
C7_PassOrder ==
    \A i, j \in 1..Len(stderr) :
        (i < j /\ stderr[i].category \in PassCategories
               /\ stderr[j].category \in PassCategories) =>
            /\ PassOf(stderr[i].category) <= PassOf(stderr[j].category)
            /\ PassOf(stderr[i].category) = PassOf(stderr[j].category) =>
                   stderr[i].lineref.line <= stderr[j].lineref.line

(* A finished run in which a NOLINT diagnostic of a later line precedes a  *)
(* per-line diagnostic of an earlier line.                                 *)
C7_Witness ==
    /\ Finished
    /\ \E i, j \in 1..Len(stderr) :
           /\ i < j
           /\ stderr[i].category = "readability/nolint"
           /\ stderr[j].category \in {"whitespace/tab", "runtime/latches"}
           /\ stderr[i].lineref.line > stderr[j].lineref.line

(* C10: every diagnostic names a line of the linted text and columns       *)
(* inside that line, 0 <= start <= end <= len(raw[line]).                  *)
C10_Stated ==
    \A i \in 1..Len(stderr) :
        /\ stderr[i].lineref.line \in 0..(Len(lines) - 1)
        /\ 0 <= stderr[i].lineref.column
        /\ stderr[i].lineref.column <= stderr[i].lineref.end_column
        /\ stderr[i].lineref.end_column
               <= Len(RawText(At(lines, stderr[i].lineref.line)))

-----------------------------------------------------------------------------
(* Properties of a run over several files. *)

OwnCfg == files[fileix].cfg

(* C9: while file k is processed, the settings and the per-file stores are *)
(* what the command line and the configuration of file k alone give: the   *)
(* line length, the extensions, the root and the filter list hold nothing  *)
(* from the files before k, and the suppressions and the symbol table are  *)
(* empty when the checks of file k start.                                  *)
C9_Stated ==
    pc \notin {"begin", "exit"} =>
        /\ line_length =
               IF OwnCfg.linelength # <<>> THEN OwnCfg.linelength[1] ELSE DefaultLineLength
        /\ valid_extensions = IF OwnCfg.extensions # <<>> THEN OwnCfg.extensions[1] ELSE {}
        /\ root = IF OwnCfg.root # <<>> THEN OwnCfg.root[1] ELSE None
        /\ filters = DEFAULT_FILTERS \o OwnCfg.filters
        /\ pc = "header" =>
               /\ error_suppressions = {}
               /\ error_suppressions_region = {}
               /\ all_identifiers = <<>>
               /\ InitTyped(all_identifiers)
               /\ locals = NoLocals

(* C8: the same input gives the same diagnostics, in the same order, on    *)
(* every run: when a run has finished the process check, its output equals *)
(* the output of each earlier run.                                         *)
C8_Stated ==
    (pc = "process_done" /\ pending = <<>>) => \A k \in 1..Len(runs) : stderr = runs[k]

(* C11: cleansing is idempotent: the cleanser applied to a line of the     *)
(* lines view gives that line again, and the cleanser of the elided view   *)
(* (string collapsing, then comment removal) applied to a line of the      *)
(* elided view gives that line again.                                      *)
C11_Stated ==
    pc = "cleansed" =>
        \A k \in 1..Len(clean_lines.lines) :
            /\ CleanseComments(clean_lines.lines[k]) = clean_lines.lines[k]
            /\ CleanseComments(CollapseStrings(clean_lines.elided[k])) = clean_lines.elided[k]

-----------------------------------------------------------------------------
(* Properties of the process checks.                                       *)

ProcessDone == pc = "process_done" /\ pending = <<>>

(* The processes of the body, named as CheckProcess names them, by their   *)
(* first line; the process a line belongs to; the signals a line assigns.  *)
Greatest(S) == CHOOSE x \in S : \A y \in S : y <= x

ProcessAt(l) == Greatest({s \in 1..l : IsProcessStart(CleansedLine(lines, s))})

WrittenAt(l) == {Lower(w) : w \in FindUsedVariables(CleansedLine(lines, l), DeclaredSignals).write}

WriteLines(w) == {l \in 1..(NumLines(lines) - 2) : w \in WrittenAt(l)}

ProcessesAt(ls) == {ProcessAt(l) : l \in ls}

Writers(w) == ProcessesAt(WriteLines(w))

(* The numbers of a set in ascending order, with commas between them. *)
RECURSIVE Ascending(_)
Ascending(S) ==
    IF S = {} THEN ""
    ELSE ToString(Least(S)) \o (IF S = {Least(S)} THEN "" ELSE ",")
             \o Ascending(S \ {Least(S)})

Reports(category, l, message) ==
    {i \in 1..Len(stderr) : /\ stderr[i].category = category
                            /\ stderr[i].lineref.line = l
                            /\ stderr[i].message = message}

ReportsOf(category, l) ==
    {i \in 1..Len(stderr) : stderr[i].category = category /\ stderr[i].lineref.line = l}

(* The end of the process that starts on line s, and the lines that the   *)
(* check of their process comes to: the check ends at a case statement     *)
(* without `end case'.                                                     *)
ProcessEnd(s) ==
    Least({l \in s..(NumLines(lines) - 2) : IsProcessEnd(CleansedLine(lines, l))})

Checked(l) ==
    \A k \in ProcessAt(l)..l :
        IsCaseLine(CleansedLine(lines, k)) => HasEndCase(lines, k, ProcessEnd(ProcessAt(l)))

CheckedWriteLines(w) == {l \in WriteLines(w) : Checked(l)}

CheckedWriters(w) == ProcessesAt(CheckedWriteLines(w))

(* The lines of the drivers recorded for w before line l. *)
RecordedBefore(w, l) == {d.line : d \in {e \in Range(GetDrivers(all_identifiers, w)) : e.line < l}}

MultipleDriversMessage(w, l) ==
    "Multiple drivers on signal '" \o w \o "'. Previous drivers are on line(s): "
        \o Ascending(RecordedBefore(w, l)) \o "."

OneMultipleDrivers(w, l) ==
    /\ Cardinality(ReportsOf("runtime/multiple_drivers", l)) = 1
    /\ \A i \in ReportsOf("runtime/multiple_drivers", l) :
           stderr[i].confidence = 5 /\ stderr[i].message = MultipleDriversMessage(w, l)

(* The lines `ls' assign w, the processes `ps' are those of these lines. *)
LaterWritesReported(w, ls, ps) ==
    \A l \in ls :
        IF ProcessAt(l) = Least(ps)
        THEN ReportsOf("runtime/multiple_drivers", l) = {}
        ELSE OneMultipleDrivers(w, l)

ProcessStarts == {l \in 1..(NumLines(lines) - 2) : IsProcessStart(CleansedLine(lines, l))}

SensitivityOf(s) == SensitivityList(lines, s, DeclaredSignals)

IsSequential(s) == \E l \in s..(ProcessEnd(s) - 1) : EdgeName(CleansedLine(lines, l)) # None

IsCombinational(s) == SensitivityOf(s) # <<>> /\ ~IsSequential(s)

BodyLines(s) == BodyLineOf(lines, s, ProcessEnd(s))..(ProcessEnd(s) - 1)

ReadAt(l) == {Lower(r) : r \in FindUsedVariables(CleansedLine(lines, l), DeclaredSignals).read}

MissingMessage(r) == "Missing signal '" \o r \o "' from sensitivity list"

(* Line l has `n' diagnostics for the missing signal r, of confidence 5. *)
MissingReports(l, r, n) ==
    /\ Cardinality(Reports("runtime/sensitivity", l, MissingMessage(r))) = n
    /\ \A i \in Reports("runtime/sensitivity", l, MissingMessage(r)) : stderr[i].confidence = 5

(* In the process with the sensitivity list `list', the lines `ls' have    *)
(* one diagnostic for each signal they read that the list does not hold,   *)
(* and none for another signal.                                            *)
MissingReported(list, ls) ==
    \A l \in ls : \A r \in SignalNames :
        MissingReports(l, r, IF r \in ReadAt(l) /\ r \notin Range(list) /\ "all" \notin Range(list)
                             THEN 1 ELSE 0)

FullyChecked(s) == \A l \in BodyLines(s) : Checked(l)

ReadIn(ls) == UNION {ReadAt(l) : l \in ls}

ExtraMessage(item) == "Extra signal '" \o item \o "' in sensitivity list."

ExtraReports(s, item, n) ==
    /\ Cardinality(Reports("runtime/sensitivity", s, ExtraMessage(item))) = n
    /\ \A i \in Reports("runtime/sensitivity", s, ExtraMessage(item)) : stderr[i].confidence = 4

(* Of the sensitivity list `list' of the process on line s, the items that *)
(* are not in `inputs' are reported once and no other; `all' is none.      *)
ExtraReported(s, list, inputs) ==
    \A item \in SignalNames \cup {"all"} :
        ExtraReports(s, item, IF item \in Range(list) \ inputs /\ item # "all" THEN 1 ELSE 0)

WrittenIn(ls) == UNION {WrittenAt(l) : l \in ls}

LoopMessage(w) == "Possible combinational loop detected on signal '" \o w \o "'."

LoopReports(s, w, n) ==
    /\ Cardinality(Reports("runtime/combinational_loop", s, LoopMessage(w))) = n
    /\ \A i \in Reports("runtime/combinational_loop", s, LoopMessage(w)) :
           stderr[i].confidence = 5

(* The signals of `loops' are reported once for the process on line s, and *)
(* no other signal is.                                                     *)
LoopsReported(s, loops) ==
    \A w \in SignalNames : LoopReports(s, w, IF w \in loops THEN 1 ELSE 0)

ClockLineOf(s) ==
    Least({l \in s..(ProcessEnd(s) - 1) : EdgeName(CleansedLine(lines, l)) # None})

ClockNameOf(s) == EdgeName(CleansedLine(lines, ClockLineOf(s)))

IsClockMessage(message) ==
    \/ StartsWith(message, "Missing clock '")
    \/ StartsWith(message, "Invalid naming convention on clock signal '")
    \/ StartsWith(message, "Superfluous items in sensitivity list.")

ClockDiagnostics(s) ==
    {i \in 1..Len(stderr) : /\ stderr[i].lineref.line \in s..ProcessEnd(s)
                            /\ IsClockMessage(stderr[i].message)}

(* What the sequential checks have to report for the process on line s. *)
ExpectedOfClock(s, list, name) ==
    (IF Lower(name) \notin Range(list) /\ "all" \notin Range(list)
     THEN {<<ClockLineOf(s), "runtime/sensitivity", 5,
             "Missing clock '" \o name \o "' from sensitivity list">>}
     ELSE {})
    \cup (IF ~ClockNameOk(name)
          THEN {<<ClockLineOf(s), "readability/naming", 1,
                  "Invalid naming convention on clock signal '" \o name
                      \o "'. Allowed conventions are [clk_*, *_clk, *_clk_i].">>}
          ELSE {})
    \cup (IF Len(list) > 2
          THEN {<<s, "runtime/sensitivity", 4,
                  "Superfluous items in sensitivity list. Sequential processes "
                      \o "should have at most 2 items (clock, async reset).">>}
          ELSE {})

AsReported(i) ==
    <<stderr[i].lineref.line, stderr[i].category, stderr[i].confidence, stderr[i].message>>

(* The process on line s has, or has not, been given the sequential        *)
(* checks, and the combinational ones.                                     *)
SequentialChecks(s, applied) ==
    IF applied
    THEN /\ {AsReported(i) : i \in ClockDiagnostics(s)}
               = ExpectedOfClock(s, SensitivityOf(s), ClockNameOf(s))
         /\ Cardinality(ClockDiagnostics(s))
               = Cardinality(ExpectedOfClock(s, SensitivityOf(s), ClockNameOf(s)))
    ELSE ClockDiagnostics(s) = {}

CombinationalChecks(s, applied) ==
    IF applied
    THEN /\ MissingReported(SensitivityOf(s), BodyLines(s))
         /\ LoopsReported(s, WrittenIn(BodyLines(s)) \cap ReadIn(BodyLines(s)))
    ELSE /\ \A l \in BodyLines(s) : \A r \in SignalNames : MissingReports(l, r, 0)
         /\ LoopsReported(s, {})

(* C23: a process whose lines hold rising_edge(X) or falling_edge(X) is    *)
(* sequential and is given the sequential checks (clock in the sensitivity *)
(* list, name of the clock, at most two items); a process that is not      *)
(* sequential and has an empty sensitivity list is simulation-only; every  *)
(* other process is combinational and is given the combinational checks.   *)
C23_Stated ==
    ProcessDone =>
        \A s \in ProcessStarts :
            /\ SequentialChecks(s, IsSequential(s))
            /\ CombinationalChecks(s, ~IsSequential(s) /\ SensitivityOf(s) # <<>>)

(* C23 as the code has it: a process with an empty sensitivity list is     *)
(* simulation-only whatever its lines hold and is given none of the        *)
(* checks; a process with a sensitivity list is sequential when its lines  *)
(* hold a clock edge, and combinational otherwise.                         *)
C23_SimulationFirst ==
    ProcessDone =>
        \A s \in ProcessStarts :
            /\ SequentialChecks(s, SensitivityOf(s) # <<>> /\ IsSequential(s))
            /\ CombinationalChecks(s, SensitivityOf(s) # <<>> /\ ~IsSequential(s))

(* A process without sensitivity list waits for rising_edge(sa) and gets   *)
(* no clock diagnostic, and a process that lists sb only is reported for   *)
(* its clock clk.                                                          *)
C23_Witness ==
    /\ ProcessDone
    /\ \E s \in ProcessStarts :
           /\ SensitivityOf(s) = <<>> /\ IsSequential(s)
           /\ ClockNameOf(s) = "sa"
           /\ ClockDiagnostics(s) = {}
    /\ \E s \in ProcessStarts :
           /\ SensitivityOf(s) = <<"sb">> /\ IsSequential(s)
           /\ \E i \in ClockDiagnostics(s) :
                  stderr[i].message = "Missing clock 'clk' from sensitivity list"

(* C19: when the file is processed the stack of local scopes is empty,     *)
(* also behind a process whose case statement has no `end case'.  The      *)
(* scopes that the processes of the architecture body leave stay to the    *)
(* end of the file: only RemoveLocalScope takes one away.                  *)
C19_Stated == ProcessDone => local_identifiers = <<>>

-----------------------------------------------------------------------------
(* Properties of the design units of a file. *)

(* The lines that declare an entity, with the entity's name. *)
EntityLines == {l \in 1..(NumLines(lines) - 2) : EntityName(CleansedLine(lines, l)) # None}

FilenameContainsAnyCase(filename, name) == Find(Lower(filename), Lower(name)) >= 0

(* C17: build/filename is reported for an entity exactly when the file     *)
(* name does not contain the entity's name, both taken without regard to   *)
(* letter case.                                                            *)
C17_Stated ==
    Finished =>
        \A l \in EntityLines :
            ReportsOf("build/filename", l) # {}
                <=> ~FilenameContainsAnyCase(current_filename,
                                             EntityName(CleansedLine(lines, l)))

(* An entity t of a file T.vhd has been checked. *)
C17_Witness ==
    /\ Finished
    /\ current_filename = "T.vhd"
    /\ \E l \in EntityLines : /\ EntityName(CleansedLine(lines, l)) = "t"
                               /\ ReportsOf("build/filename", l) # {}

(* The name a line declares as a signal, a constant or a port (None when   *)
(* it declares nothing).                                                   *)
PortNameAt(text) ==
    IF PortOpen(text) >= 0 /\ PortNames(SliceFrom(text, PortOpen(text) + 1)) # <<>>
    THEN PortNames(SliceFrom(text, PortOpen(text) + 1))[1]
    ELSE None

DeclaredNameAt(text) ==
    IF MatchDeclaration(text, "signal") # None THEN MatchDeclaration(text, "signal")
    ELSE IF MatchDeclaration(text, "constant") # None THEN MatchDeclaration(text, "constant")
    ELSE PortNameAt(text)

DeclarationLines == {l \in FileLines : DeclaredNameAt(CleansedLine(lines, l)) # None}

(* The lines that name an entity, an architecture or a package. *)
UnitLines ==
    {l \in FileLines : \/ EntityName(CleansedLine(lines, l)) # None
                       \/ ArchitectureName(CleansedLine(lines, l)) # None
                       \/ PackageName(CleansedLine(lines, l)) # None}

(* Line l lies in a package, in an architecture. *)
UnitOf(l, units) == Greatest({s \in units : s <= l})

InPackage(l, units) == PackageName(CleansedLine(lines, UnitOf(l, units))) # None

InArchitecture(l, units) == ArchitectureName(CleansedLine(lines, UnitOf(l, units))) # None

(* The lines CheckIdentifiers is called for: those of the architectures    *)
(* and packages, and in an entity the lines of the port list.              *)
Scanned(m, units) ==
    \/ InPackage(m, units)
    \/ InArchitecture(m, units)
    \/ PortOpen(CleansedLine(lines, m)) >= 0

Mentions(name, m) ==
    \E w \in Range(Words(CleansedLine(lines, m))) : Lower(w) = Lower(name)

UnusedReports(l, name) == Reports("build/unused", l, "Unused identifier '" \o name \o "'.")

OneUnused(l, name) ==
    /\ Cardinality(ReportsOf("build/unused", l)) = 1
    /\ \A i \in UnusedReports(l, name) : stderr[i].confidence = 2
    /\ UnusedReports(l, name) = ReportsOf("build/unused", l)

DeclaredOnce(l, decls) ==
    \A k \in decls \ {l} :
        Lower(DeclaredNameAt(CleansedLine(lines, k)))
            # Lower(DeclaredNameAt(CleansedLine(lines, l)))

(* C16: a signal, port or constant that no other line of the file mentions *)
(* is reported once as build/unused, confidence 2, at its declaration; one *)
(* that another line mentions is not reported, and no entity, architecture *)
(* or package is.                                                          *)
UnusedAsStated(l, name) ==
    IF \E m \in FileLines \ {l} : Mentions(name, m)
    THEN ReportsOf("build/unused", l) = {}
    ELSE OneUnused(l, name)

UnusedAsScanned(l, name, units) ==
    IF \/ InPackage(l, units)
       \/ \E m \in FileLines : m > l /\ Scanned(m, units) /\ Mentions(name, m)
    THEN ReportsOf("build/unused", l) = {}
    ELSE OneUnused(l, name)

UnusedScan(decls, units) ==
    /\ \A l \in {d \in decls : DeclaredOnce(d, decls)} :
           UnusedAsScanned(l, DeclaredNameAt(CleansedLine(lines, l)), units)
    /\ \A l \in units : ReportsOf("build/unused", l) = {}

-----------------------------------------------------------------------------
(* Properties of the filter list. *)

(* The filter list with its entries without sign read as the usage text    *)
(* reads them: "-FOO" and "FOO" mean the same.                             *)
Signed(fs) == [i \in 1..Len(fs) |-> IF WellFormed(fs[i]) THEN fs[i] ELSE "-" \o fs[i]]

(* C18: an entry without sign is accepted and filters like the entry with  *)
(* a minus sign: neither SetFilters nor AddFilters nor the filter loop of  *)
(* _ShouldPrintError raises, and nothing is printed in a category that the *)
(* list, read with the minus sign, filters out.                            *)
C18_Stated ==
    /\ exception \notin {"ValueError", "AssertionError"}
    /\ \A i \in 1..Len(stderr) : ~IsFiltered(Signed(filters), stderr[i].category, FALSE)

(* SetFilters has been called with an entry without sign. *)
C18_Witness ==
    /\ pc = "set_filters"
    /\ ~FiltersValid(filters)
    /\ exception = "ValueError"

-----------------------------------------------------------------------------
(* Properties of the suppressed regions. *)

RegionBegins(n, category) ==
    At(lines, n).dir = "NOLINTBEGIN" /\ Names(At(lines, n), category)

RegionEnds(n, category) ==
    At(lines, n).dir = "NOLINTEND" /\ Names(At(lines, n), category)

(* The categories with a NOLINTBEGIN that no later NOLINTEND closes. *)
OpenRegions(ls) ==
    {category \in ERROR_CATEGORIES :
        \E b \in ls : /\ RegionBegins(b, category)
                      /\ \A e \in ls : e > b => ~RegionEnds(e, category)}

(* C20: no region is open when the file has been processed. *)
C20_Stated == Finished => error_suppressions_region = {}

(* C20, for the regions the file closes: the regions that are open when    *)
(* the file has been processed are those of the categories whose last      *)
(* NOLINTBEGIN has no NOLINTEND after it.                                  *)
C20_OpenRegions == Finished => error_suppressions_region = OpenRegions(FileLines)

(* The file has closed the region of whitespace/tab and left the one of    *)
(* readability/nolint open.                                                *)
C20_Witness ==
    /\ Finished
    /\ error_suppressions_region = {"readability/nolint"}
    /\ \E b, e \in FileLines : /\ b < e
                               /\ RegionBegins(b, "whitespace/tab")
                               /\ RegionEnds(e, "whitespace/tab")

-----------------------------------------------------------------------------
(* Properties of the drivers of an identifier. *)

(* The drivers that are no PossibleDriver, as what their class compares:   *)
(* the line of a Driver, the scope of a ProcessDriver.                     *)
KnownDrivers(drivers) ==
    {<<d.class, IF d.class = "ProcessDriver" THEN d.scope ELSE d.line>> :
         d \in {e \in Range(drivers) : e.class # "PossibleDriver"}}

MultipleDriversReported ==
    \E i \in 1..Len(stderr) : stderr[i].category = "runtime/multiple_drivers"

DriversChecked == pc = "drivers_checked" /\ pending = <<>>

(* C21: HasMultipleDrivers is true exactly when the drivers that are no    *)
(* PossibleDriver, counted as distinct by the line of a Driver and by the  *)
(* scope of a ProcessDriver, are more than one, in whatever order the      *)
(* drivers were added and whatever PossibleDrivers share a line with them. *)
C21_Stated ==
    /\ \A k \in 1..Len(all_identifiers) :
           HasMultipleDrivers(all_identifiers[k].drivers)
               <=> Cardinality(KnownDrivers(all_identifiers[k].drivers)) > 1
    /\ DriversChecked =>
           (MultipleDriversReported
                <=> Cardinality(KnownDrivers(GetDrivers(all_identifiers, "v"))) > 1)

-----------------------------------------------------------------------------
(* Properties of the drivers that the processes of a file add. *)

UnitSignals == {"a", "sa", "sb", "sy"}

(* Line l assigns w; the processes line l is in, by their first line. *)
AssignsAt(l, w) == StartsWith(LStrip(CleansedLine(lines, l)), w \o " <= ")

ProcessesOf(l) ==
    {s \in 1..l : /\ IsProcessStart(CleansedLine(lines, s))
                  /\ \A e \in s..(l - 1) : ~IsProcessEnd(CleansedLine(lines, e))}

ProcessWriters(w) == UNION {ProcessesOf(l) : l \in {m \in FileLines : AssignsAt(m, w)}}

ProcessDriversOf(ids, w) ==
    IF IsIdentifierWithType(ids, w)
    THEN {d \in Range(GetDrivers(ids, w)) : d.class = "ProcessDriver"}
    ELSE {}

MultipleDriversOn(w) ==
    {i \in 1..Len(stderr) :
        /\ stderr[i].category = "runtime/multiple_drivers"
        /\ StartsWith(stderr[i].message, "Multiple drivers on signal '" \o w \o "'")}

(* C22: a ProcessDriver of w has the first line of a process as its scope  *)
(* and a line of that process that assigns w as its line; a                *)
(* runtime/multiple_drivers on w is raised only where another, earlier     *)
(* process has assigned w; and a signal or port that a single process and  *)
(* no other assigns gets no runtime/multiple_drivers.                      *)
C22_Stated ==
    Finished =>
        \A w \in UnitSignals :
            /\ \A d \in ProcessDriversOf(all_identifiers, w) :
                   d.scope \in ProcessesOf(d.line) /\ AssignsAt(d.line, w)
            /\ \A i \in MultipleDriversOn(w) :
                   \E earlier \in ProcessWriters(w) :
                       \A s \in ProcessesOf(stderr[i].lineref.line) : earlier < s
            /\ Cardinality(ProcessWriters(w)) <= 1 => MultipleDriversOn(w) = {}

-----------------------------------------------------------------------------
(* Properties of the removal of line comments. *)

(* The positions of `--' in the line whose prefix holds an even number of  *)
(* double quotes that are not escaped: the `--' outside of a string.       *)
CommentStarts(line) ==
    {p \in 0..(Len(line) - 2) : /\ Slice(line, p, p + 2) = "--"
                                /\ ~IsCppString(Slice(line, 0, p))}

Truncated(line) ==
    IF CommentStarts(line) = {} THEN line
    ELSE RStrip(Slice(line, 0, Least(CommentStarts(line))))

(* C24: the cleansed line is the raw line cut at the first `--' that is    *)
(* not inside a string and stripped of white space at its end; a `--'      *)
(* inside a string is not cut, and the comment behind such a string is.    *)
C24_Stated ==
    pc = "cleansed" =>
        \A k \in 1..Len(clean_lines.lines) :
            clean_lines.lines[k] = Truncated(RawText(At(lines, k - 1)))

-----------------------------------------------------------------------------
(* Properties of CloseExpression. *)

(* The characters of the elided lines from (linenum, pos) on, up to the    *)
(* character at (l, c), as <<line, column, character>>.                    *)
CharsOfLine(l, from) ==
    [k \in 1..(Len(Elided(lines, l)) - from) |->
        <<l, from + k - 1, CharAt(Elided(lines, l), from + k - 1)>>]

RECURSIVE CharsFrom(_, _)
CharsFrom(l, from) ==
    IF l >= Len(lines) THEN <<>> ELSE CharsOfLine(l, from) \o CharsFrom(l + 1, 0)

Partners == {<<"(", ")">>, <<"[", "]">>, <<"{", "}">>}

Nesting == {"(", ")", "[", "]", "{", "}"}

(* w is properly nested: empty, or an opening bracket, a properly nested   *)
(* word, the closing bracket of the same kind, and a properly nested word. *)
RECURSIVE ProperlyNested(_)
ProperlyNested(w) ==
    \/ w = <<>>
    \/ \E k \in 2..Len(w) :
           /\ <<w[1], w[k]>> \in Partners
           /\ ProperlyNested(SubSeq(w, 2, k - 1))
           /\ ProperlyNested(SubSeq(w, k + 1, Len(w)))

BracketsOf(chars) == SelectSeq(chars, LAMBDA c : c[3] \in Nesting)

(* The n-th character from the start closes the bracket at the start: the  *)
(* brackets up to it are an opening one, a properly nested word and the    *)
(* closing one of the same kind.                                           *)
ClosesStart(chars, n) ==
    LET w == [k \in 1..Len(BracketsOf(SubSeq(chars, 1, n))) |->
                 BracketsOf(SubSeq(chars, 1, n))[k][3]]
    IN  /\ chars[n][3] \in Nesting
        /\ Len(w) >= 2
        /\ <<w[1], w[Len(w)]>> \in Partners
        /\ ProperlyNested(SubSeq(w, 2, Len(w) - 1))

NotClosed(r) == r.linenum = Len(lines) /\ r.pos = -1

(* The result r is what proper nesting of the round, square and curly      *)
(* brackets gives from the start on, whatever stands between them.         *)
MatchesNesting(chars, r) ==
    IF \E n \in 1..Len(chars) : ClosesStart(chars, n)
    THEN \E n \in 1..Len(chars) :
             /\ ClosesStart(chars, n)
             /\ r.linenum = chars[n][1] /\ r.pos = chars[n][2] + 1
    ELSE NotClosed(r)

Closed == pc = "closed" /\ locals.fn = "CloseExpression"

StartChar == CharAt(Elided(lines, linenum), locals.pos)

(* C27 as stated: started on `(', `[' or `{' the result is the position     *)
(* just after the bracket that proper nesting matches, across lines, or    *)
(* the sentinel (number of lines, -1) when there is none, whatever `<',    *)
(* `>' and `;' stand in between; started on any other character, `<'       *)
(* included, the result is the sentinel.                                   *)
C27_Stated ==
    Closed =>
        IF StartChar \in {"(", "[", "{"}
        THEN MatchesNesting(CharsFrom(linenum, locals.pos), locals.result)
        ELSE NotClosed(locals.result)

(* C27: as stated for a start on `(', `[' or `{'; the sentinel is the       *)
(* result of a start on a character that is none of `(', `[', `{' and `<', *)
(* and of a start on the first character of `<<'.                          *)
C27_AngleIsOpening ==
    Closed =>
        IF StartChar \in {"(", "[", "{"}
        THEN MatchesNesting(CharsFrom(linenum, locals.pos), locals.result)
        ELSE (\/ StartChar # "<"
              \/ Slice(Elided(lines, linenum), locals.pos, locals.pos + 2) = "<<")
                 => NotClosed(locals.result)

(* A round bracket closed on the next line with a `<' pending. *)
C27_Witness ==
    /\ Closed /\ linenum = 1 /\ locals.pos = 0
    /\ Elided(lines, 1) = "(<" /\ Elided(lines, 2) = ")"
    /\ locals.result.linenum = 2 /\ locals.result.pos = 1

-----------------------------------------------------------------------------
(* Properties of the port maps. *)

(* C28: the loop of CheckPortMap that merges the items whose counts of `(' *)
(* and `)' differ finishes for every port map: a run that has entered the  *)
(* loop leaves it.                                                         *)
C28_Stated == (pc = "merge") ~> (pc = "mappings")

-----------------------------------------------------------------------------
(* Properties of the symbol table. *)

Keys(dict) == {dict[k].key : k \in 1..Len(dict)}

Position(dict, key) == CHOOSE k \in 1..Len(dict) : dict[k].key = key

(* C25 as stated: the records of _all_identifiers stand in the order of    *)
(* their declarations, a later declaration behind every earlier one.       *)
C25_Stated ==
    \A i, j \in 1..Len(all_identifiers) :
        i < j => all_identifiers[i].lineref.line < all_identifiers[j].lineref.line

(* C25: _all_identifiers keeps the order in which its names were put in:   *)
(* no step changes the order of two names that stay, and a name that comes *)
(* in stands behind all that stay, so that a name declared again keeps the *)
(* place of its entry.                                                     *)
C25_InsertionOrder ==
    [][/\ \A x, y \in Keys(all_identifiers) \cap Keys(all_identifiers') :
              Position(all_identifiers, x) < Position(all_identifiers, y)
                  <=> Position(all_identifiers', x) < Position(all_identifiers', y)
       /\ \A x \in Keys(all_identifiers') \ Keys(all_identifiers) :
              \A y \in Keys(all_identifiers) \cap Keys(all_identifiers') :
                  Position(all_identifiers', y) < Position(all_identifiers', x)]_vars

(* The name a, declared on line 1 and again as a constant on line 3, in    *)
(* front of the name b of line 2.                                          *)
C25_Witness ==
    /\ Len(all_identifiers) = 2
    /\ all_identifiers[1].key = "a" /\ all_identifiers[1].kind = "Constant"
    /\ all_identifiers[1].lineref.line = 3
    /\ all_identifiers[2].key = "b" /\ all_identifiers[2].lineref.line = 2

Unused(scope) == {k \in 1..Len(scope) : ~scope[k].referenced}

LocalReports(errs, i) ==
    {k \in 1..Len(errs) : /\ errs[k].category = "build/unused"
                          /\ errs[k].lineref = i.lineref
                          /\ errs[k].message = "Unused local identifier '" \o i.name \o "'."}

(* C26: a step that closes a scope calls error once for each local of the  *)
(* innermost scope that is not referenced and for nothing else, takes out  *)
(* of _all_identifiers the entries that are locals of that scope and keeps *)
(* every other entry, also one of the name of such a local, takes the      *)
(* innermost scope off the stack and leaves the three dictionaries of the  *)
(* classes as they are.                                                    *)
C26_PopScope ==
    [][Len(local_identifiers') < Len(local_identifiers) =>
          /\ Len(pending') = Cardinality(Unused(Top(local_identifiers)))
          /\ \A k \in 1..Len(Top(local_identifiers)) :
                 Cardinality(LocalReports(pending', Top(local_identifiers)[k]))
                     = IF Top(local_identifiers)[k].referenced THEN 0 ELSE 1
          /\ all_identifiers' =
                 SelectSeq(all_identifiers, LAMBDA i : i \notin Range(Top(local_identifiers)))
          /\ local_identifiers' = Pop(local_identifiers)
          /\ UNCHANGED tableVars]_vars

(* A scope with the unused local a was closed after a signal a had been    *)
(* declared behind the local: the local is reported and the signal stays.  *)
C26_Witness ==
    /\ local_identifiers = <<>>
    /\ \E d \in Range(pending \o stderr), i \in Range(all_identifiers) :
           /\ d.message = "Unused local identifier 'a'."
           /\ i.key = "a" /\ i.kind = "Signal"
           /\ i.lineref.line > d.lineref.line

LookedUp == pc = "looked_up" /\ locals.fn = "GetIdentifierWithType"

(* The record of the innermost scope that declares the name. *)
Innermost(name) ==
    Entry(local_identifiers[CHOOSE k \in ScopesWith(local_identifiers, name) :
                                \A j \in ScopesWith(local_identifiers, name) : j <= k], name)

(* C29: a name that two open scopes declare resolves to the record of the  *)
(* inner one: GetVariableIdentifier returns it, IsVariableIdentifier tells *)
(* whether it is a variable, and GetIdentifierWithType returns it when it  *)
(* is one.                                                                 *)
C29_Stated ==
    (LookedUp /\ Cardinality(ScopesWith(local_identifiers, locals.name)) = 2) =>
        /\ locals.variable = Innermost(locals.name)
        /\ locals.is_variable = (Innermost(locals.name).kind = "Variable")
        /\ Innermost(locals.name).kind = "Variable"
               => locals.with_type = Innermost(locals.name)

(* C30: every name of _signal_identifiers, _constant_identifiers and       *)
(* _other_identifiers is a name of _all_identifiers.                       *)
C30_Stated ==
    Keys(signal_identifiers) \cup Keys(constant_identifiers) \cup Keys(other_identifiers)
        \subseteq Keys(all_identifiers)

====
